---- MODULE Spec2Model ----
(***************************************************************************)
(* A model of the nimix mark-region heap: Block / BumpBlock (line marks,   *)
(* hole search, bump window), BlockStore (free / recycle / rest / large    *)
(* pools, sweep), Allocator (head / overflow windows, refill) and the      *)
(* Treiber AtomicStack the pools are built on.                             *)
(*                                                                         *)
(* Geometry is scaled down so that TLC can enumerate it; the relations     *)
(* between the constants are those of src/src/constants.rs:                *)
(*   LINE_COUNT = BLOCK_SIZE / LINE_SIZE, BLOCK_CAPACITY = BLOCK_SIZE -    *)
(*   LINE_COUNT, RECYCLE_HOLE_MIN = 5 * LINE_SIZE, SMALL_OBJECT_MAX =      *)
(*   LINE_SIZE, MEDIUM_OBJECT_MAX = BLOCK_CAPACITY.                        *)
(***************************************************************************)
EXTENDS Integers, Sequences, FiniteSets, TLC

(* ------------------------------------------------------------------ *)
(* constants.rs (scaled: BLOCK_SIZE 32768 -> 32, LINE_SIZE 128 -> 2,  *)
(* MAX_FREE_BLOCKS 100 -> 1)                                          *)
(* ------------------------------------------------------------------ *)
FREE_MARK == 0
BLOCK_SIZE == 32
LINE_SIZE == 2
LINE_COUNT == BLOCK_SIZE \div LINE_SIZE
BLOCK_CAPACITY == BLOCK_SIZE - LINE_COUNT
\* Offset of the data region in the block allocation (block.rs:30).  The
\* constant itself is not in the sources at hand; the data region of
\* BLOCK_CAPACITY bytes has to end inside the BLOCK_SIZE allocation.
META_CAPACITY == BLOCK_SIZE - BLOCK_CAPACITY
SMALL_OBJECT_MIN == 1
SMALL_OBJECT_MAX == LINE_SIZE
MEDIUM_OBJECT_MAX == BLOCK_CAPACITY
\* u32::MAX in the source; scaled to the largest size a LargeBlock region holds
MAX_ALLOC_SIZE == 2 * BLOCK_SIZE - 1
LARGE_OBJECT_MIN == MEDIUM_OBJECT_MAX + 1
MAX_FREE_BLOCKS == 1
RECYCLE_HOLE_MIN == LINE_SIZE * 5

(* ------------------------------------------------------------------ *)
(* Bounds of the model                                                *)
(* ------------------------------------------------------------------ *)
\* BLOCK_SIZE-aligned regions the system allocator can hand to Block::alloc
MaxBlocks == 2
\* regions the system allocator can hand to LargeBlock::new
MaxLarge == 2
\* mark generations the runtime rotates through (1..MaxMark)
MaxMark == 2
\* alloc calls in one run of the heap model
MaxAllocs == 3
\* collection cycles (sweeps) in one run of the heap model
MaxSweeps == 2

\* Allocator handles
Allocs == {1, 2}
\* Layouts (size, align) the mutators request: a small one (it straddles two
\* lines when it follows the odd-sized medium one in the same block), two
\* medium ones (a short odd-sized one, and one that nearly fills a block and
\* is aligned beyond a line) and a large one.
Layouts == { <<2, 1>>, <<3, 1>>, <<14, 4>>, <<17, 4>> }

Slots == 1 .. MaxBlocks
Marks == 1 .. MaxMark
NoBlk == 0

(* ------------------------------------------------------------------ *)
(* helpers                                                            *)
(* ------------------------------------------------------------------ *)
RECURSIVE Reverse(_)
Reverse(s) == IF s = <<>> THEN <<>> ELSE Append(Reverse(Tail(s)), Head(s))

RECURSIVE SeqSum(_)
SeqSum(s) == IF s = <<>> THEN 0 ELSE Head(s) + SeqSum(Tail(s))

Range(s) == { s[i] : i \in 1 .. Len(s) }

Max(S) == CHOOSE x \in S : \A y \in S : y <= x
Min(S) == CHOOSE x \in S : \A y \in S : x <= y

div_ceil(a, b) == (a + b - 1) \div b

(* ------------------------------------------------------------------ *)
(* size_class.rs: SizeClass::get_for_size                             *)
(* ------------------------------------------------------------------ *)
SizeClass(size) ==
    IF size <= SMALL_OBJECT_MAX THEN "Small"
    ELSE IF size <= MEDIUM_OBJECT_MAX THEN "Medium"
    ELSE "Large"

(* ------------------------------------------------------------------ *)
(* block.rs: Block                                                    *)
(* ------------------------------------------------------------------ *)
\* line marks after Block::reset
FreeLines == [i \in 0 .. LINE_COUNT - 1 |-> FREE_MARK]

NoHole == [found |-> FALSE, cursor |-> 0, limit |-> 0]
Hole(c, l) == [found |-> TRUE, cursor |-> c, limit |-> l]

\* variant of the loop that forgets `end = index` at a marked line
RECURSIVE ScanHoleStaleEnd(_, _, _, _, _)
ScanHoleStaleEnd(lines, index, free_line_count, end, lines_required) ==
    IF index < 0 THEN NoHole
    ELSE IF lines[index] = FREE_MARK
         THEN IF index = 0 /\ free_line_count + 1 >= lines_required
              THEN Hole(end * LINE_SIZE, index * LINE_SIZE)
              ELSE ScanHoleStaleEnd(lines, index - 1, free_line_count + 1, end,
                                    lines_required)
         ELSE IF free_line_count > lines_required
              THEN Hole(end * LINE_SIZE, (index + 2) * LINE_SIZE)
              ELSE ScanHoleStaleEnd(lines, index - 1, 0, end, lines_required)

\* variant of the loop that ends a hole directly above the marked line
RECURSIVE ScanHoleToMarkedLine(_, _, _, _, _)
ScanHoleToMarkedLine(lines, index, free_line_count, end, lines_required) ==
    IF index < 0 THEN NoHole
    ELSE IF lines[index] = FREE_MARK
         THEN IF index = 0 /\ free_line_count + 1 >= lines_required
              THEN Hole(end * LINE_SIZE, index * LINE_SIZE)
              ELSE ScanHoleToMarkedLine(lines, index - 1, free_line_count + 1, end,
                                        lines_required)
         ELSE IF free_line_count >= lines_required /\ free_line_count > 0
              THEN Hole(end * LINE_SIZE, (index + 1) * LINE_SIZE)
              ELSE ScanHoleToMarkedLine(lines, index - 1, 0, index, lines_required)

\* variant of the loop that accepts a run above a marked line as soon as it
\* has lines_required lines
RECURSIVE ScanHoleLooseThreshold(_, _, _, _, _)
ScanHoleLooseThreshold(lines, index, free_line_count, end, lines_required) ==
    IF index < 0 THEN NoHole
    ELSE IF lines[index] = FREE_MARK
         THEN IF index = 0 /\ free_line_count + 1 >= lines_required
              THEN Hole(end * LINE_SIZE, index * LINE_SIZE)
              ELSE ScanHoleLooseThreshold(lines, index - 1, free_line_count + 1, end,
                                          lines_required)
         ELSE IF free_line_count >= lines_required
              THEN Hole(end * LINE_SIZE, (index + 2) * LINE_SIZE)
              ELSE ScanHoleLooseThreshold(lines, index - 1, 0, index, lines_required)

\* variant of the loop that asks for more than lines_required lines at
\* line 0 as well
RECURSIVE ScanHoleStrictAtZero(_, _, _, _, _)
ScanHoleStrictAtZero(lines, index, free_line_count, end, lines_required) ==
    IF index < 0 THEN NoHole
    ELSE IF lines[index] = FREE_MARK
         THEN IF index = 0 /\ free_line_count + 1 > lines_required
              THEN Hole(end * LINE_SIZE, index * LINE_SIZE)
              ELSE ScanHoleStrictAtZero(lines, index - 1, free_line_count + 1, end,
                                        lines_required)
         ELSE IF free_line_count > lines_required
              THEN Hole(end * LINE_SIZE, (index + 2) * LINE_SIZE)
              ELSE ScanHoleStrictAtZero(lines, index - 1, 0, index, lines_required)

\* the loop `for index in (0..starting_line).rev()` of find_next_available_hole
RECURSIVE ScanHole(_, _, _, _, _)
ScanHole(lines, index, free_line_count, end, lines_required) ==
    IF index < 0 THEN NoHole
    ELSE IF lines[index] = FREE_MARK
         THEN IF index = 0 /\ free_line_count + 1 >= lines_required
              THEN Hole(end * LINE_SIZE, index * LINE_SIZE)
              ELSE ScanHole(lines, index - 1, free_line_count + 1, end, lines_required)
         ELSE IF free_line_count > lines_required
              THEN Hole(end * LINE_SIZE, (index + 2) * LINE_SIZE)
              ELSE ScanHole(lines, index - 1, 0, index, lines_required)

find_next_available_hole(lines, starting_at, alloc_size) ==
    LET starting_line == starting_at \div LINE_SIZE
        lines_required == div_ceil(alloc_size, LINE_SIZE)
    IN  ScanHole(lines, starting_line - 1, 0, starting_line, lines_required)

\* variant of Block::mark that also sets the line above a Small object
MarkLinesSmallSpill(lines, idx, size, m) ==
    LET line == idx \div LINE_SIZE
        end_line == (idx + size - 1) \div LINE_SIZE
    IN  IF SizeClass(size) = "Small"
        THEN [lines EXCEPT ![line] = m, ![line + 1] = m]
        ELSE [i \in DOMAIN lines |-> IF line <= i /\ i < end_line THEN m ELSE lines[i]]

\* Block::mark: idx is the block-local data offset of the object
MarkLinesExclusiveEnd(lines, idx, size, m) ==
    LET line == idx \div LINE_SIZE
        end_line == (idx + size - 1) \div LINE_SIZE
    IN  IF SizeClass(size) = "Small"
        THEN [lines EXCEPT ![line] = m]
        ELSE [i \in DOMAIN lines |-> IF line <= i /\ i < end_line THEN m ELSE lines[i]]

BlockMark(blk, idx, size, m) ==
    [blk EXCEPT !.lines = MarkLinesExclusiveEnd(blk.lines, idx, size, m),
                !.mark = m]

\* variant of free_unmarked that frees the line marks of marked blocks only
free_unmarked_marked_only(blk, m) ==
    [blk EXCEPT !.mark = IF blk.mark # m THEN FREE_MARK ELSE blk.mark,
                !.lines = [i \in DOMAIN blk.lines |->
                              IF blk.lines[i] # m /\ blk.mark = m
                              THEN FREE_MARK ELSE blk.lines[i]]]

\* Block::free_unmarked
free_unmarked(blk, m) ==
    [blk EXCEPT !.mark = IF blk.mark # m THEN FREE_MARK ELSE blk.mark,
                !.lines = [i \in DOMAIN blk.lines |->
                              IF blk.lines[i] # m THEN FREE_MARK ELSE blk.lines[i]]]

(* ------------------------------------------------------------------ *)
(* bump_block.rs: BumpBlock                                           *)
(* ------------------------------------------------------------------ *)
\* variant of BumpBlock::new whose window is the whole BLOCK_SIZE allocation
NewBumpBlockWholeBlock ==
    [cursor |-> BLOCK_SIZE, limit |-> 0, mark |-> FREE_MARK, lines |-> FreeLines]

\* BumpBlock::new on top of Block::alloc (all marks reset)
NewBumpBlock ==
    [cursor |-> BLOCK_CAPACITY, limit |-> 0, mark |-> FREE_MARK, lines |-> FreeLines]

\* the record kept for an address region that holds no block
DeadBlock == [cursor |-> 0, limit |-> 0, mark |-> FREE_MARK, lines |-> FreeLines]

\* variant of reset_hole that looks for the hole before it frees the
\* unmarked lines
reset_hole_stale_lines(blk, m) ==
    LET b1 == free_unmarked(blk, m)
        h == find_next_available_hole(blk.lines, BLOCK_CAPACITY, SMALL_OBJECT_MIN)
    IN  IF b1.mark # m
        THEN [b1 EXCEPT !.cursor = BLOCK_CAPACITY, !.limit = 0]
        ELSE IF h.found
             THEN [b1 EXCEPT !.cursor = h.cursor, !.limit = h.limit]
             ELSE [b1 EXCEPT !.cursor = 0, !.limit = 0]

\* BumpBlock::reset_hole
reset_hole(blk, m) ==
    LET b1 == free_unmarked(blk, m)
        h == find_next_available_hole(b1.lines, BLOCK_CAPACITY, SMALL_OBJECT_MIN)
    IN  IF b1.mark # m
        THEN [b1 EXCEPT !.cursor = BLOCK_CAPACITY, !.limit = 0]
        ELSE IF h.found
             THEN [b1 EXCEPT !.cursor = h.cursor, !.limit = h.limit]
             ELSE [b1 EXCEPT !.cursor = 0, !.limit = 0]

current_hole_size(blk) == blk.cursor - blk.limit

\* variant of is_marked with the comparison negated
is_marked_negated(blk, m) == blk.mark # m

is_marked(blk, m) == blk.mark = m

\* address of the first data byte of the block in region s
DataAddr(s) == s * BLOCK_SIZE + META_CAPACITY

\* variant of the alignment step that leaves the address as it is
AlignDownNone(addr, align) == addr

\* `potential_addr & !(layout.align() - 1)`
AlignDown(addr, align) == addr - (addr % align)

\* variant of inner_alloc that bumps the cursor without comparing it with
\* the limit
inner_alloc_past_limit(blk, data, size, align) ==
    IF blk.cursor < size
    THEN [res |-> "none", blk |-> blk, off |-> 0]
    ELSE LET potential_start == blk.cursor - size
             potential_addr == data + potential_start
             aligned_addr == AlignDown(potential_addr, align)
             addr_adjustment == potential_addr - aligned_addr
             next == potential_start - addr_adjustment
         IN  IF potential_start >= BLOCK_CAPACITY
             THEN [res |-> "panic", blk |-> blk, off |-> potential_start]
             ELSE IF potential_start < addr_adjustment
             THEN [res |-> "none", blk |-> blk, off |-> 0]
             ELSE [res |-> "some", blk |-> [blk EXCEPT !.cursor = next], off |-> next]

\* variant of inner_alloc that refuses a request of exactly the bytes left
\* below the cursor
RECURSIVE inner_alloc_strict_sub(_, _, _, _)
inner_alloc_strict_sub(blk, data, size, align) ==
    IF blk.cursor <= size
    THEN [res |-> "none", blk |-> blk, off |-> 0]
    ELSE LET potential_start == blk.cursor - size
             potential_addr == data + potential_start
             aligned_addr == AlignDown(potential_addr, align)
             addr_adjustment == potential_addr - aligned_addr
             next == potential_start - addr_adjustment
             h == find_next_available_hole(blk.lines, blk.limit, size)
         IN  IF potential_start >= BLOCK_CAPACITY
             THEN [res |-> "panic", blk |-> blk, off |-> potential_start]
             ELSE IF potential_start < addr_adjustment
             THEN [res |-> "none", blk |-> blk, off |-> 0]
             ELSE IF blk.limit <= next
             THEN [res |-> "some", blk |-> [blk EXCEPT !.cursor = next], off |-> next]
             ELSE IF h.found
             THEN inner_alloc_strict_sub([blk EXCEPT !.cursor = h.cursor,
                                                     !.limit = h.limit],
                                         data, size, align)
             ELSE [res |-> "none", blk |-> blk, off |-> 0]

\* BumpBlock::inner_alloc.  res: "some", "none", or "panic" when the bounds
\* assertion of Block::get_data_ptr fails.
RECURSIVE inner_alloc(_, _, _, _)
inner_alloc(blk, data, size, align) ==
    IF blk.cursor < size
    THEN [res |-> "none", blk |-> blk, off |-> 0]
    ELSE LET potential_start == blk.cursor - size
             potential_addr == data + potential_start
             aligned_addr == AlignDown(potential_addr, align)
             addr_adjustment == potential_addr - aligned_addr
             next == potential_start - addr_adjustment
             h == find_next_available_hole(blk.lines, blk.limit, size)
         IN  IF potential_start >= BLOCK_CAPACITY
             THEN [res |-> "panic", blk |-> blk, off |-> potential_start]
             ELSE IF potential_start < addr_adjustment
             THEN [res |-> "none", blk |-> blk, off |-> 0]
             ELSE IF blk.limit <= next
             THEN [res |-> "some", blk |-> [blk EXCEPT !.cursor = next], off |-> next]
             ELSE IF h.found
             THEN inner_alloc([blk EXCEPT !.cursor = h.cursor, !.limit = h.limit],
                              data, size, align)
             ELSE [res |-> "none", blk |-> blk, off |-> 0]

(* ------------------------------------------------------------------ *)
(* State                                                              *)
(* ------------------------------------------------------------------ *)
VARIABLES
    blocks,       \* region -> BumpBlock {cursor, limit, block mark, line marks}
    live,         \* regions that hold a BumpBlock in existence
    free,         \* BlockStore.free    (stack of regions, top first)
    recycle,      \* BlockStore.recycle
    rest,         \* BlockStore.rest
    large,        \* BlockStore.large   (stack of LargeBlocks, top first)
    block_count,  \* BlockStore.block_count
    head,         \* Allocator.head     (allocator -> region or NoBlk)
    overflow,     \* Allocator.overflow
    lused,        \* large regions handed out by the system allocator so far; none
                  \* is given back (large_block.rs has no Drop and no dealloc)
    objs,         \* objects the runtime holds: allocated, not yet swept away
    marker,       \* the mark generation of the current cycle
    ret,          \* what the last alloc or sweep returned, if it was the last call
    phase,        \* "mutate": mutators run; "mark": world stopped, runtime marks
    nsweep,       \* sweeps run so far
    nalloc,       \* alloc calls made so far
    nodes,        \* AtomicStack node memory: address -> Node
    heads,        \* AtomicStack.head of each stack
    thr,          \* per thread: the stack / allocator call in progress
    hist          \* values pushed and popped so far (AtomicStack runs)

heapVars == <<blocks, live, free, recycle, rest, large, block_count, head,
              overflow, lused, objs, marker, ret, phase, nsweep, nalloc>>
stackVars == <<nodes, heads, thr, hist>>
vars == <<heapVars, stackVars>>

\* the store and the allocator windows as one value, threaded through a call
Pack == [blocks |-> blocks, live |-> live, free |-> free, recycle |-> recycle,
         rest |-> rest, large |-> large, block_count |-> block_count,
         head |-> head, overflow |-> overflow, lused |-> lused]

Install(H) ==
    /\ blocks' = H.blocks
    /\ live' = H.live
    /\ free' = H.free
    /\ recycle' = H.recycle
    /\ rest' = H.rest
    /\ large' = H.large
    /\ block_count' = H.block_count
    /\ head' = H.head
    /\ overflow' = H.overflow
    /\ lused' = H.lused

(* ------------------------------------------------------------------ *)
(* large_block.rs: LargeBlock                                         *)
(* ------------------------------------------------------------------ *)
\* Layout::extend(mark byte) then pad_to_align: the size of the allocation
PaddedSize(size, align) == div_ceil(size + 1, align) * align

LargeStride == 2 * BLOCK_SIZE
LargeBase == (MaxBlocks + 1) * BLOCK_SIZE
\* address the system allocator returns for the n-th large allocation
LargeAddr(n) == LargeBase + n * LargeStride

(* ------------------------------------------------------------------ *)
(* block_store.rs: BlockStore                                         *)
(* ------------------------------------------------------------------ *)
Push(stack, x) == <<x>> \o stack

\* variant of new_block that leaves block_count alone
new_block_uncounted(H) ==
    LET avail == Slots \ H.live
        s == Min(avail)
    IN  IF avail = {}
        THEN [res |-> "OOM", H |-> H, blk |-> NoBlk]
        ELSE [res |-> "ok", blk |-> s,
              H |-> [H EXCEPT !.live = @ \cup {s},
                              !.blocks = [@ EXCEPT ![s] = NewBumpBlock]]]

\* BlockStore::new_block: the counter is bumped, then BumpBlock::new runs
\* and fails with OOM when the system allocator has no region left.
new_block(H) ==
    LET H1 == [H EXCEPT !.block_count = @ + 1]
        avail == Slots \ H.live
        s == Min(avail)
    IN  IF avail = {}
        THEN [res |-> "OOM", H |-> H1, blk |-> NoBlk]
        ELSE [res |-> "ok", blk |-> s,
              H |-> [H1 EXCEPT !.live = @ \cup {s},
                               !.blocks = [@ EXCEPT ![s] = NewBumpBlock]]]

\* variant of get_overflow that reuses a rest block before it creates one
get_overflow_from_rest(H) ==
    IF H.free # <<>>
    THEN [res |-> "ok", blk |-> Head(H.free), H |-> [H EXCEPT !.free = Tail(@)]]
    ELSE IF H.rest # <<>>
    THEN [res |-> "ok", blk |-> Head(H.rest), H |-> [H EXCEPT !.rest = Tail(@)]]
    ELSE new_block(H)

get_overflow(H) ==
    IF H.free # <<>>
    THEN [res |-> "ok", blk |-> Head(H.free), H |-> [H EXCEPT !.free = Tail(@)]]
    ELSE new_block(H)

\* variant of get_head that falls back on the rest pool before get_overflow()
get_head_from_rest(H) ==
    IF H.recycle # <<>>
    THEN [res |-> "ok", blk |-> Head(H.recycle), H |-> [H EXCEPT !.recycle = Tail(@)]]
    ELSE IF H.rest # <<>>
    THEN [res |-> "ok", blk |-> Head(H.rest), H |-> [H EXCEPT !.rest = Tail(@)]]
    ELSE get_overflow(H)

\* variant of get_head that looks at the free pool before the recycle pool
get_head_free_first(H) ==
    IF H.free # <<>>
    THEN [res |-> "ok", blk |-> Head(H.free), H |-> [H EXCEPT !.free = Tail(@)]]
    ELSE IF H.recycle # <<>>
    THEN [res |-> "ok", blk |-> Head(H.recycle), H |-> [H EXCEPT !.recycle = Tail(@)]]
    ELSE new_block(H)

get_head(H) ==
    IF H.recycle # <<>>
    THEN [res |-> "ok", blk |-> Head(H.recycle), H |-> [H EXCEPT !.recycle = Tail(@)]]
    ELSE get_overflow(H)

store_rest(H, b) == [H EXCEPT !.rest = Push(@, b)]

store_recycle(H, b) ==
    IF current_hole_size(H.blocks[b]) >= RECYCLE_HOLE_MIN
    THEN [H EXCEPT !.recycle = Push(@, b)]
    ELSE store_rest(H, b)

\* variant of create_large that pushes the LargeBlock before the system
\* allocator has answered
create_large_push_first(H, size, align) ==
    LET n == H.lused + 1
        lb == [id |-> n, size |-> PaddedSize(size, align), mark |-> FREE_MARK]
        H1 == [H EXCEPT !.large = Push(@, lb)]
    IN  IF H.lused >= MaxLarge
        THEN [res |-> "OOM", H |-> H1, blk |-> NoBlk, off |-> 0]
        ELSE [res |-> "some", blk |-> n, off |-> 0, H |-> [H1 EXCEPT !.lused = n]]

\* BlockStore::create_large on top of LargeBlock::new
create_large(H, size, align) ==
    IF H.lused >= MaxLarge
    THEN [res |-> "OOM", H |-> H, blk |-> NoBlk, off |-> 0]
    ELSE LET n == H.lused + 1
             lb == [id |-> n, size |-> PaddedSize(size, align), mark |-> FREE_MARK]
         IN  [res |-> "some", blk |-> n, off |-> 0,
              H |-> [H EXCEPT !.lused = n, !.large = Push(@, lb)]]

\* BlockStore::count_large_space / get_size (the value; the drain and
\* re-push of the large stack is in the action GetSize)
count_large_space(lg) == SeqSum([i \in 1 .. Len(lg) |-> lg[i].size])
get_size(H) == H.block_count * BLOCK_SIZE + count_large_space(H.large)

(* ------------------------------------------------------------------ *)
(* allocator.rs: Allocator                                            *)
(* ------------------------------------------------------------------ *)
\* variant of get_new_head that hands the displaced head to recycle()
get_new_head_recycling(H, a) ==
    LET fromOverflow == H.overflow[a] # NoBlk
        g == get_head(H)
        H1 == IF fromOverflow THEN [H EXCEPT !.overflow[a] = NoBlk] ELSE g.H
        new_head == IF fromOverflow THEN H.overflow[a] ELSE g.blk
        rest_block == H1.head[a]
        H2 == [H1 EXCEPT !.head[a] = new_head]
    IN  IF ~fromOverflow /\ g.res # "ok"
        THEN [res |-> g.res, H |-> g.H]
        ELSE [res |-> "ok",
              H |-> IF rest_block # NoBlk THEN store_recycle(H2, rest_block) ELSE H2]

get_new_head(H, a) ==
    LET fromOverflow == H.overflow[a] # NoBlk
        g == get_head(H)
        H1 == IF fromOverflow THEN [H EXCEPT !.overflow[a] = NoBlk] ELSE g.H
        new_head == IF fromOverflow THEN H.overflow[a] ELSE g.blk
        rest_block == H1.head[a]
        H2 == [H1 EXCEPT !.head[a] = new_head]
    IN  IF ~fromOverflow /\ g.res # "ok"
        THEN [res |-> g.res, H |-> g.H]
        ELSE [res |-> "ok",
              H |-> IF rest_block # NoBlk THEN store_rest(H2, rest_block) ELSE H2]

\* variant of get_new_overflow that asks get_head() for the new block
get_new_overflow_from_head(H, a) ==
    LET g == get_head(H)
        recycle_block == g.H.overflow[a]
        H2 == [g.H EXCEPT !.overflow[a] = g.blk]
    IN  IF g.res # "ok"
        THEN [res |-> g.res, H |-> g.H]
        ELSE [res |-> "ok",
              H |-> IF recycle_block # NoBlk THEN store_recycle(H2, recycle_block) ELSE H2]

get_new_overflow(H, a) ==
    LET g == get_overflow(H)
        recycle_block == g.H.overflow[a]
        H2 == [g.H EXCEPT !.overflow[a] = g.blk]
    IN  IF g.res # "ok"
        THEN [res |-> g.res, H |-> g.H]
        ELSE [res |-> "ok",
              H |-> IF recycle_block # NoBlk THEN store_recycle(H2, recycle_block) ELSE H2]

\* head_alloc / overflow_alloc: inner_alloc on the window, window put back
window_alloc(H, b, size, align) ==
    IF b = NoBlk
    THEN [res |-> "none", H |-> H, blk |-> NoBlk, off |-> 0]
    ELSE LET r == inner_alloc(H.blocks[b], DataAddr(b), size, align)
         IN  [res |-> r.res, blk |-> b, off |-> r.off,
              H |-> [H EXCEPT !.blocks[b] = r.blk]]

RECURSIVE small_alloc(_, _, _, _)
small_alloc(H, a, size, align) ==
    LET r == window_alloc(H, H.head[a], size, align)
        g == get_new_head(r.H, a)
    IN  IF r.res # "none" THEN r
        ELSE IF g.res # "ok" THEN [res |-> g.res, H |-> g.H, blk |-> NoBlk, off |-> 0]
        ELSE small_alloc(g.H, a, size, align)

RECURSIVE medium_alloc(_, _, _, _)
medium_alloc(H, a, size, align) ==
    LET r == window_alloc(H, H.overflow[a], size, align)
        g == get_new_overflow(r.H, a)
    IN  IF r.res # "none" THEN r
        ELSE IF g.res # "ok" THEN [res |-> g.res, H |-> g.H, blk |-> NoBlk, off |-> 0]
        ELSE medium_alloc(g.H, a, size, align)

\* Allocator::alloc: res is "some" (a pointer), "OOM" or "panic"
alloc(H, a, size, align) ==
    IF SizeClass(size) = "Small" THEN small_alloc(H, a, size, align)
    ELSE IF SizeClass(size) = "Medium" THEN medium_alloc(H, a, size, align)
    ELSE create_large(H, size, align)

\* variant of flush that pushes both windows to the rest pool
flush_to_rest(H, a) ==
    LET h == H.head[a]
        H1 == IF h # NoBlk THEN store_rest([H EXCEPT !.head[a] = NoBlk], h) ELSE H
        o == H1.overflow[a]
    IN  IF o # NoBlk THEN store_rest([H1 EXCEPT !.overflow[a] = NoBlk], o) ELSE H1

\* Allocator::flush (Drop for Allocator)
flush(H, a) ==
    LET h == H.head[a]
        H1 == IF h # NoBlk THEN store_recycle([H EXCEPT !.head[a] = NoBlk], h) ELSE H
        o == H1.overflow[a]
    IN  IF o # NoBlk THEN store_recycle([H1 EXCEPT !.overflow[a] = NoBlk], o) ELSE H1

\* variant of sweep that clears the block mark of the blocks it keeps in
\* the recycle and rest pools
sweep_clearing_marks(H, m) ==
    LET pooled == Range(H.recycle) \cup Range(H.rest)
        swept == [s \in Slots |->
                    IF s \in pooled THEN reset_hole(H.blocks[s], m) ELSE H.blocks[s]]
        Marked(s) == is_marked(swept[s], m)
        Roomy(s) == current_hole_size(swept[s]) >= RECYCLE_HOLE_MIN
        new_large == SelectSeq(H.large, LAMBDA lb : lb.mark = m)
        new_recycle == SelectSeq(H.recycle, Marked)
                       \o SelectSeq(H.rest, LAMBDA s : Marked(s) /\ Roomy(s))
        new_rest == SelectSeq(H.rest, LAMBDA s : Marked(s) /\ ~Roomy(s))
        new_free == SelectSeq(H.recycle, LAMBDA s : ~Marked(s))
                    \o SelectSeq(H.rest, LAMBDA s : ~Marked(s))
        nkept == IF Len(new_free) < MAX_FREE_BLOCKS THEN Len(new_free) ELSE MAX_FREE_BLOCKS
        kept == SubSeq(new_free, 1, nkept)
        dropped == SubSeq(new_free, nkept + 1, Len(new_free))
    IN  [H EXCEPT !.large = Reverse(new_large),
                  !.recycle = Reverse(new_recycle),
                  !.rest = Reverse(new_rest),
                  !.free = Reverse(kept) \o H.free,
                  !.blocks = [s \in Slots |->
                                IF s \in Range(dropped) THEN DeadBlock
                                ELSE IF s \in pooled /\ Marked(s)
                                     THEN [swept[s] EXCEPT !.mark = FREE_MARK]
                                     ELSE swept[s]],
                  !.live = @ \ Range(dropped),
                  !.block_count = @ - Len(dropped)]

\* variant of sweep that also resets the holes of the blocks held in
\* allocator windows
sweep_with_windows(H, m) ==
    LET pooled == Range(H.recycle) \cup Range(H.rest)
        held == { H.head[a] : a \in DOMAIN H.head }
                \cup { H.overflow[a] : a \in DOMAIN H.overflow }
        swept == [s \in Slots |->
                    IF s \in pooled \cup held
                    THEN reset_hole(H.blocks[s], m) ELSE H.blocks[s]]
        Marked(s) == is_marked(swept[s], m)
        Roomy(s) == current_hole_size(swept[s]) >= RECYCLE_HOLE_MIN
        new_large == SelectSeq(H.large, LAMBDA lb : lb.mark = m)
        new_recycle == SelectSeq(H.recycle, Marked)
                       \o SelectSeq(H.rest, LAMBDA s : Marked(s) /\ Roomy(s))
        new_rest == SelectSeq(H.rest, LAMBDA s : Marked(s) /\ ~Roomy(s))
        new_free == SelectSeq(H.recycle, LAMBDA s : ~Marked(s))
                    \o SelectSeq(H.rest, LAMBDA s : ~Marked(s))
        nkept == IF Len(new_free) < MAX_FREE_BLOCKS THEN Len(new_free) ELSE MAX_FREE_BLOCKS
        kept == SubSeq(new_free, 1, nkept)
        dropped == SubSeq(new_free, nkept + 1, Len(new_free))
    IN  [H EXCEPT !.large = Reverse(new_large),
                  !.recycle = Reverse(new_recycle),
                  !.rest = Reverse(new_rest),
                  !.free = Reverse(kept) \o H.free,
                  !.blocks = [s \in Slots |->
                                IF s \in Range(dropped) THEN DeadBlock ELSE swept[s]],
                  !.live = @ \ Range(dropped),
                  !.block_count = @ - Len(dropped)]

\* BlockStore::sweep.  drain_to_vec yields a stack top first and
\* push_from_iter pushes in vector order, so a re-pushed stack is reversed.
sweep(H, m) ==
    LET pooled == Range(H.recycle) \cup Range(H.rest)
        swept == [s \in Slots |->
                    IF s \in pooled THEN reset_hole(H.blocks[s], m) ELSE H.blocks[s]]
        Marked(s) == is_marked(swept[s], m)
        Roomy(s) == current_hole_size(swept[s]) >= RECYCLE_HOLE_MIN
        new_large == SelectSeq(H.large, LAMBDA lb : lb.mark = m)
        new_recycle == SelectSeq(H.recycle, Marked)
                       \o SelectSeq(H.rest, LAMBDA s : Marked(s) /\ Roomy(s))
        new_rest == SelectSeq(H.rest, LAMBDA s : Marked(s) /\ ~Roomy(s))
        new_free == SelectSeq(H.recycle, LAMBDA s : ~Marked(s))
                    \o SelectSeq(H.rest, LAMBDA s : ~Marked(s))
        nkept == IF Len(new_free) < MAX_FREE_BLOCKS THEN Len(new_free) ELSE MAX_FREE_BLOCKS
        kept == SubSeq(new_free, 1, nkept)
        dropped == SubSeq(new_free, nkept + 1, Len(new_free))
    IN  [H EXCEPT !.large = Reverse(new_large),
                  !.recycle = Reverse(new_recycle),
                  !.rest = Reverse(new_rest),
                  !.free = Reverse(kept) \o H.free,
                  !.blocks = [s \in Slots |->
                                IF s \in Range(dropped) THEN DeadBlock ELSE swept[s]],
                  !.live = @ \ Range(dropped),
                  !.block_count = @ - Len(dropped)]

(* ------------------------------------------------------------------ *)
(* The runtime: objects it holds, marking, the mark generation        *)
(* ------------------------------------------------------------------ *)
\* address of an object returned by alloc
ObjAddr(kind, blk, off) ==
    IF kind = "Large" THEN LargeAddr(blk) ELSE DataAddr(blk) + off

Disjoint(a1, s1, a2, s2) == a1 + s1 <= a2 \/ a2 + s2 <= a1

NoRet == [op |-> "none", res |-> "none", kind |-> "none", blk |-> NoBlk, off |-> 0,
          addr |-> 0, size |-> 0, align |-> 1, isnew |-> TRUE, val |-> 0,
          again |-> FALSE]


\* mark(ptr, layout, mark) of lib.rs: Block::mark for Small / Medium,
\* LargeBlock::mark (the mark byte behind the payload) for Large
mark(H, o, m) ==
    IF o.kind = "Large"
    THEN [H EXCEPT !.large = [i \in DOMAIN H.large |->
                                 IF H.large[i].id = o.blk
                                 THEN [H.large[i] EXCEPT !.mark = m]
                                 ELSE H.large[i]]]
    ELSE [H EXCEPT !.blocks[o.blk] = BlockMark(H.blocks[o.blk], o.off, o.size, m)]

(* ------------------------------------------------------------------ *)
(* Heap model: handlers run one at a time                             *)
(* ------------------------------------------------------------------ *)
StackIdle ==
    /\ nodes = <<>>
    /\ heads = <<>>
    /\ thr = <<>>
    /\ hist = <<>>

\* Heap::new(): no block, empty pools; the handles hold no window
HeapInit ==
    /\ blocks = [s \in Slots |-> DeadBlock]
    /\ live = {}
    /\ free = <<>>
    /\ recycle = <<>>
    /\ rest = <<>>
    /\ large = <<>>
    /\ block_count = 0
    /\ head = [a \in Allocs |-> NoBlk]
    /\ overflow = [a \in Allocs |-> NoBlk]
    /\ lused = 0
    /\ objs = {}
    /\ marker = 1
    /\ ret = NoRet
    /\ phase = "mutate"
    /\ nsweep = 0
    /\ nalloc = 0

Init == HeapInit /\ StackIdle

\* Allocator::alloc(layout) by handle a
Alloc(a, size, align) ==
    /\ phase = "mutate"
    /\ nalloc < MaxAllocs
    /\ nalloc' = nalloc + 1
    /\ LET r == alloc(Pack, a, size, align)
           kind == SizeClass(size)
           addr == ObjAddr(kind, r.blk, r.off)
           o == [kind |-> kind, blk |-> r.blk, off |-> r.off, addr |-> addr,
                 size |-> size, mk |-> FREE_MARK, old |-> FALSE]
       IN  /\ Install(r.H)
           /\ IF r.res = "some"
              THEN /\ objs' = objs \cup {o}
                   /\ ret' = [NoRet EXCEPT !.op = "alloc", !.res = r.res, !.kind = kind,
                                           !.blk = r.blk, !.off = r.off, !.addr = addr,
                                           !.size = size, !.align = align,
                                           !.isnew = o \notin objs]
              ELSE /\ objs' = objs
                   /\ ret' = [NoRet EXCEPT !.op = "alloc", !.res = r.res, !.kind = kind,
                                           !.size = size, !.align = align]
    /\ UNCHANGED <<marker, phase, nsweep, stackVars>>

\* mark(p, layout, marker) for an object the runtime holds.  Marking is the
\* mark phase of a collection cycle: the mutators are stopped from the
\* first mark until the sweep.
Mark(o) ==
    /\ nsweep < MaxSweeps
    /\ o.mk # marker
    /\ Install(mark(Pack, o, marker))
    /\ objs' = (objs \ {o}) \cup {[o EXCEPT !.mk = marker]}
    /\ ret' = NoRet
    /\ phase' = "mark"
    /\ UNCHANGED <<marker, nsweep, nalloc, stackVars>>

\* Heap::sweep(marker); the runtime forgets the objects it did not mark and
\* picks the generation of the next cycle.  ret.again records that the call
\* before this one was a sweep with the same mark value.
Sweep(next_marker) ==
    /\ nsweep < MaxSweeps
    /\ Install(sweep(Pack, marker))
    /\ objs' = { [o EXCEPT !.old = TRUE] : o \in { x \in objs : x.mk = marker } }
    /\ marker' = next_marker
    /\ ret' = [NoRet EXCEPT !.op = "sweep", !.val = marker,
                            !.again = (ret.op = "sweep" /\ ret.val = marker)]
    /\ phase' = "mutate"
    /\ nsweep' = nsweep + 1
    /\ UNCHANGED <<nalloc, stackVars>>

\* drop of handle a (flush); a new handle takes its place
DropAllocator(a) ==
    /\ phase = "mutate"
    /\ head[a] # NoBlk \/ overflow[a] # NoBlk
    /\ Install(flush(Pack, a))
    /\ ret' = NoRet
    /\ UNCHANGED <<objs, marker, phase, nsweep, nalloc, stackVars>>

\* Heap::size(): count_large_space drains the large stack and pushes it back
GetSize ==
    /\ large' = Reverse(large)
    /\ UNCHANGED <<blocks, live, free, recycle, rest, block_count, head, overflow,
                   lused, objs, marker, ret, phase, nsweep, nalloc, stackVars>>

Next ==
    \/ \E a \in Allocs, l \in Layouts : Alloc(a, l[1], l[2])
    \/ \E o \in objs : Mark(o)
    \/ \E m \in Marks : Sweep(m)
    \/ \E a \in Allocs : DropAllocator(a)
    \/ GetSize

Spec == Init /\ [][Next]_vars

(* ------------------------------------------------------------------ *)
(* Cycle model (CycleSpec): the heap model under the collector's       *)
(* discipline: every allocator is dropped before the world is stopped, *)
(* and the next cycle marks with another value                         *)
(* ------------------------------------------------------------------ *)
\* collection cycles in one run of the cycle model
MaxCycles == 3

\* mark(p, layout, marker) as in Mark, within the cycles of this model
CycleMark(o) ==
    /\ nsweep < MaxCycles
    /\ o.mk # marker
    /\ Install(mark(Pack, o, marker))
    /\ objs' = (objs \ {o}) \cup {[o EXCEPT !.mk = marker]}
    /\ ret' = NoRet
    /\ phase' = "mark"
    /\ UNCHANGED <<marker, nsweep, nalloc, stackVars>>

\* Heap::sweep(marker) once no allocator holds a window; the next cycle
\* uses a mark value other than this one
FlushedSweep(next_marker) ==
    /\ nsweep < MaxCycles
    /\ \A a \in Allocs : head[a] = NoBlk /\ overflow[a] = NoBlk
    /\ next_marker # marker
    /\ Install(sweep(Pack, marker))
    /\ objs' = { [o EXCEPT !.old = TRUE] : o \in { x \in objs : x.mk = marker } }
    /\ marker' = next_marker
    /\ ret' = [NoRet EXCEPT !.op = "sweep", !.val = marker]
    /\ phase' = "mutate"
    /\ nsweep' = nsweep + 1
    /\ UNCHANGED <<nalloc, stackVars>>

CycleNext ==
    \/ \E a \in Allocs, l \in Layouts : Alloc(a, l[1], l[2])
    \/ \E o \in objs : CycleMark(o)
    \/ \E m \in Marks : FlushedSweep(m)
    \/ \E a \in Allocs : DropAllocator(a)
    \/ GetSize

CycleSpec == Init /\ [][CycleNext]_vars

(* ------------------------------------------------------------------ *)
(* Edge model (EdgeSpec): Allocator::alloc from its first line, on    *)
(* layouts at and beyond the limits of the size classes and of the    *)
(* block alignment                                                    *)
(* ------------------------------------------------------------------ *)
\* alloc calls in one run of the edge model
MaxEdgeAllocs == 3

\* Layouts (size, align): size 0, a size above MAX_ALLOC_SIZE, Small and
\* Medium sizes aligned to BLOCK_SIZE and beyond it, a Medium one aligned to
\* half a block, the whole data region, and a plain small one
EdgeLayouts ==
    { <<0, 1>>, <<MAX_ALLOC_SIZE + 1, 1>>,
      <<2, BLOCK_SIZE>>, <<2, 2 * BLOCK_SIZE>>,
      <<3, BLOCK_SIZE>>, <<3, 2 * BLOCK_SIZE>>,
      <<8, BLOCK_SIZE \div 2>>, <<BLOCK_CAPACITY, 1>>, <<2, 1>> }

\* SizeClass::get_for_size with its error
get_for_size(size) ==
    IF size = 0 \/ size > MAX_ALLOC_SIZE THEN "AllocOverflow" ELSE SizeClass(size)

\* Allocator::alloc: the assertion on the size, then get_for_size(..)?, then
\* the match on the size class
alloc_entry(H, a, size, align) ==
    IF size = 0
    THEN [res |-> "panic", H |-> H, blk |-> NoBlk, off |-> 0]
    ELSE IF get_for_size(size) = "AllocOverflow"
    THEN [res |-> "AllocOverflow", H |-> H, blk |-> NoBlk, off |-> 0]
    ELSE alloc(H, a, size, align)

\* Allocator::alloc(layout) by handle a, any layout
EdgeAlloc(a, size, align) ==
    /\ phase = "mutate"
    /\ nalloc < MaxEdgeAllocs
    /\ nalloc' = nalloc + 1
    /\ LET r == alloc_entry(Pack, a, size, align)
           kind == SizeClass(size)
           addr == ObjAddr(kind, r.blk, r.off)
           o == [kind |-> kind, blk |-> r.blk, off |-> r.off, addr |-> addr,
                 size |-> size, mk |-> FREE_MARK, old |-> FALSE]
       IN  /\ Install(r.H)
           /\ IF r.res = "some"
              THEN /\ objs' = objs \cup {o}
                   /\ ret' = [NoRet EXCEPT !.op = "alloc", !.res = r.res, !.kind = kind,
                                           !.blk = r.blk, !.off = r.off, !.addr = addr,
                                           !.size = size, !.align = align,
                                           !.isnew = o \notin objs]
              ELSE /\ objs' = objs
                   /\ ret' = [NoRet EXCEPT !.op = "alloc", !.res = r.res, !.kind = kind,
                                           !.size = size, !.align = align]
    /\ UNCHANGED <<marker, phase, nsweep, stackVars>>

EdgeNext ==
    \/ \E a \in Allocs, l \in EdgeLayouts : EdgeAlloc(a, l[1], l[2])
    \/ \E a \in Allocs : DropAllocator(a)

EdgeSpec == Init /\ [][EdgeNext]_vars

(* ------------------------------------------------------------------ *)
(* Block model (BlockSpec): one call of Block::find_next_available_hole *)
(* or of Block::mark on a block with any line marks of an earlier     *)
(* cycle                                                              *)
(* ------------------------------------------------------------------ *)
\* the lines that hold data bytes
DataLines == 0 .. (BLOCK_CAPACITY \div LINE_SIZE) - 1

\* every existing block carries the line marks L left by the cycle that
\* marked with Min(Marks); the blocks are in the rest pool
BlockInit ==
    /\ \E L \in [DataLines -> {FREE_MARK, Min(Marks)}] :
          blocks = [s \in Slots |->
                      [NewBumpBlock EXCEPT
                          !.lines = [i \in DOMAIN FreeLines |->
                                        IF i \in DataLines THEN L[i] ELSE FREE_MARK],
                          !.mark = IF \E i \in DataLines : L[i] # FREE_MARK
                                   THEN Min(Marks) ELSE FREE_MARK]]
    /\ live = Slots
    /\ free = <<>>
    /\ recycle = <<>>
    /\ rest = [i \in 1 .. MaxBlocks |-> i]
    /\ large = <<>>
    /\ block_count = MaxBlocks
    /\ head = [a \in Allocs |-> NoBlk]
    /\ overflow = [a \in Allocs |-> NoBlk]
    /\ lused = 0
    /\ objs = {}
    /\ marker = Min(Marks)
    /\ ret = NoRet
    /\ phase = "mutate"
    /\ nsweep = 0
    /\ nalloc = 0
    /\ StackIdle

\* Block::find_next_available_hole(starting_at, alloc_size) on block 1
FindHole(starting_at, alloc_size) ==
    /\ ret.op = "none"
    /\ LET h == find_next_available_hole(blocks[1].lines, starting_at, alloc_size)
       IN  ret' = [op |-> "find_next_available_hole", starting_at |-> starting_at,
                   alloc_size |-> alloc_size, found |-> h.found,
                   cursor |-> h.cursor, limit |-> h.limit]
    /\ UNCHANGED <<blocks, live, free, recycle, rest, large, block_count, head,
                   overflow, lused, objs, marker, phase, nsweep, nalloc, stackVars>>

\* Block::mark(ptr, layout, size_class, m) for an object of `size` bytes at
\* data offset off of block 1
MarkCall(off, size, m) ==
    /\ ret.op = "none"
    /\ off + size <= BLOCK_CAPACITY
    /\ blocks' = [blocks EXCEPT ![1] = BlockMark(blocks[1], off, size, m)]
    /\ ret' = [op |-> "mark", off |-> off, size |-> size, m |-> m, before |-> blocks]
    /\ UNCHANGED <<live, free, recycle, rest, large, block_count, head,
                   overflow, lused, objs, marker, phase, nsweep, nalloc, stackVars>>

\* Layouts (size, align) asked of a single BumpBlock: one byte, a whole
\* line, a medium object that straddles lines, one aligned beyond a line,
\* and a whole block
BumpLayouts == { <<1, 1>>, <<2, 2>>, <<3, 1>>, <<5, 4>>, <<BLOCK_CAPACITY, 1>> }

\* BumpBlock::reset_hole(m) on block 1, as sweep calls it: on the marks the
\* mark phase left, or again on a block that has been allocated into
ResetHole(m) ==
    /\ ret.op \in {"none", "mark", "inner_alloc"}
    /\ nsweep < MaxSweeps
    /\ nsweep' = nsweep + 1
    /\ blocks' = [blocks EXCEPT ![1] = reset_hole(blocks[1], m)]
    /\ ret' = [op |-> "reset_hole", m |-> m, after |-> ret.op]
    /\ UNCHANGED <<live, free, recycle, rest, large, block_count, head,
                   overflow, lused, objs, marker, phase, nalloc, stackVars>>

\* BumpBlock::inner_alloc(layout) on block 1, whose window reset_hole has set
\* (the blocks that Block::mark has been applied to are not allocated into)
SweptInnerAlloc(size, align) ==
    /\ ret.op = "inner_alloc" \/ (ret.op = "reset_hole" /\ ret.after # "mark")
    /\ nalloc < MaxAllocs
    /\ nalloc' = nalloc + 1
    /\ LET r == inner_alloc(blocks[1], DataAddr(1), size, align)
       IN  /\ blocks' = [blocks EXCEPT ![1] = r.blk]
           /\ ret' = [op |-> "inner_alloc", size |-> size, res |-> r.res]
    /\ UNCHANGED <<live, free, recycle, rest, large, block_count, head,
                   overflow, lused, objs, marker, phase, nsweep, stackVars>>

BlockNext ==
    \/ \E starting_at \in 0 .. BLOCK_CAPACITY, alloc_size \in 1 .. BLOCK_CAPACITY :
          FindHole(starting_at, alloc_size)
    \/ \E off \in 0 .. BLOCK_CAPACITY - 1, size \in 1 .. BLOCK_CAPACITY, m \in Marks :
          MarkCall(off, size, m)
    \/ \E m \in Marks : ResetHole(m)
    \/ \E l \in BumpLayouts : SweptInnerAlloc(l[1], l[2])

BlockSpec == BlockInit /\ [][BlockNext]_vars

(* ------------------------------------------------------------------ *)
(* Bump model (BumpSpec): inner_alloc calls on one newly constructed    *)
(* BumpBlock until it is exhausted                                      *)
(* ------------------------------------------------------------------ *)
\* inner_alloc calls made on the block: enough to exhaust it byte by byte
\* and ask once more
MaxBumpCalls == BLOCK_CAPACITY + 1

\* Layouts (size, align) asked of the new block
FreshLayouts == { <<1, 1>>, <<2, 2>>, <<3, 1>> }

\* BumpBlock::new(): every block is new, block 1 is the one allocated into
BumpInit ==
    /\ blocks = [s \in Slots |-> NewBumpBlock]
    /\ live = Slots
    /\ free = <<>>
    /\ recycle = <<>>
    /\ rest = [i \in 1 .. MaxBlocks |-> i]
    /\ large = <<>>
    /\ block_count = MaxBlocks
    /\ head = [a \in Allocs |-> NoBlk]
    /\ overflow = [a \in Allocs |-> NoBlk]
    /\ lused = 0
    /\ objs = {}
    /\ marker = Min(Marks)
    /\ ret = NoRet
    /\ phase = "mutate"
    /\ nsweep = 0
    /\ nalloc = 0
    /\ StackIdle

\* BumpBlock::inner_alloc(layout) on block 1; ret.hole is current_hole_size()
\* before the call, objs the kinds of call made so far (layout and outcome)
FreshInnerAlloc(size, align) ==
    /\ nalloc < MaxBumpCalls
    /\ nalloc' = nalloc + 1
    /\ LET r == inner_alloc(blocks[1], DataAddr(1), size, align)
       IN  /\ blocks' = [blocks EXCEPT ![1] = r.blk]
           /\ ret' = [op |-> "inner_alloc", size |-> size, align |-> align,
                      res |-> r.res, off |-> r.off,
                      hole |-> current_hole_size(blocks[1])]
           /\ objs' = objs \cup {[size |-> size, align |-> align, res |-> r.res]}
    /\ UNCHANGED <<live, free, recycle, rest, large, block_count, head,
                   overflow, lused, marker, phase, nsweep, stackVars>>

BumpNext == \E l \in FreshLayouts : FreshInnerAlloc(l[1], l[2])

BumpSpec == BumpInit /\ [][BumpNext]_vars

(* ------------------------------------------------------------------ *)
(* Concurrent model (ConcSpec): allocator handles on several threads, *)
(* the recycle pool as the Treiber stack of atomic_stack.rs, one      *)
(* access to shared memory per step.  The threads request the small   *)
(* layout; no sweep runs, so the free pool stays empty.               *)
(* ------------------------------------------------------------------ *)
\* allocator handles, one per thread
MaxHandles == 3
\* addresses the system allocator has for stack nodes
MaxNodes == 2
\* alloc calls in one run of the concurrent model
MaxConcAllocs == 6

Handles == 1 .. MaxHandles
NodeAddrs == 1 .. MaxNodes
\* ptr::null_mut()
Null == 0
ConcLayout == <<2, 1>>

\* a BumpBlock value {cursor, limit, block}; NoWin is Option::None
NoWin == [blk |-> NoBlk, cursor |-> 0, limit |-> 0]
BumpOf(w) == [cursor |-> w.cursor, limit |-> w.limit,
              mark |-> blocks[w.blk].mark, lines |-> blocks[w.blk].lines]

\* node memory that is not allocated: never used, or freed by a pop
FreeNode == [value |-> NoWin, next |-> Null, freed |-> TRUE]
IdleThread == [pc |-> "idle", hd |-> Null, nx |-> Null, nn |-> Null,
               nxok |-> TRUE, win |-> NoWin]

\* what a read of freed node memory can yield
AnyPointer == NodeAddrs \cup {Null}
AnyValue ==
    LET written == { nodes[n].value : n \in NodeAddrs } \ {NoWin}
    IN  IF written = {} THEN {NoWin} ELSE written

\* the blocks in the nodes linked from p
RECURSIVE StackBlocks(_, _)
StackBlocks(p, fuel) ==
    IF p = Null \/ fuel = 0 THEN <<>>
    ELSE (IF nodes[p].freed THEN <<>> ELSE << nodes[p].value.blk >>)
         \o StackBlocks(nodes[p].next, fuel - 1)

Count(seq, x) == Len(SelectSeq(seq, LAMBDA y : y = x))

StackInit ==
    /\ nodes = [n \in NodeAddrs |-> FreeNode]
    /\ heads = Null
    /\ thr = [h \in Handles |-> IdleThread]
    /\ hist = [s \in Slots |-> 0]

ConcInit == HeapInit /\ StackInit

concFixed == <<free, recycle, large, head, overflow, lused, marker, ret, phase, nsweep>>

\* head_alloc on the window w of handle h, after the window was (re)filled:
\* the pointer is returned, or small_alloc loops into get_new_head
HeadAllocThen(h, w, t) ==
    LET r == inner_alloc(BumpOf(w), DataAddr(w.blk), ConcLayout[1], ConcLayout[2])
        w1 == [w EXCEPT !.cursor = r.blk.cursor, !.limit = r.blk.limit]
        o == [id |-> Cardinality(objs) + 1, kind |-> "Small", blk |-> w.blk,
              off |-> r.off, addr |-> DataAddr(w.blk) + r.off, size |-> ConcLayout[1]]
    IN  IF w # NoWin /\ r.res = "some"
        THEN /\ objs' = objs \cup {o}
             /\ thr' = [thr EXCEPT ![h] = [t EXCEPT !.pc = "idle", !.win = w1]]
        ELSE /\ objs' = objs
             /\ thr' = [thr EXCEPT ![h] = [t EXCEPT !.pc = "pop_load", !.win = w]]

\* get_new_head: the old head goes to the rest pool, new_head is installed
RestOld(h) ==
    IF thr[h].win # NoWin THEN Push(rest, thr[h].win) ELSE rest

\* Allocator::alloc of the small layout: head_alloc on the current window
AllocStep(h) ==
    /\ thr[h].pc = "idle"
    /\ nalloc < MaxConcAllocs
    /\ nalloc' = nalloc + 1
    /\ HeadAllocThen(h, thr[h].win, thr[h])
    /\ UNCHANGED <<blocks, live, rest, block_count, nodes, heads, hist, concFixed>>

\* AtomicStack::pop, `self.head.load(Acquire)`.  On null pop returns None:
\* get_head falls to get_overflow, the free pool is empty, new_block runs.
PopLoadHead(h) ==
    /\ thr[h].pc = "pop_load"
    /\ IF heads # Null
       THEN /\ thr' = [thr EXCEPT ![h].hd = heads, ![h].pc = "pop_next"]
            /\ UNCHANGED <<blocks, live, rest, block_count, objs>>
       ELSE LET avail == Slots \ live
                s == Min(avail)
            IN  /\ block_count' = block_count + 1
                /\ IF avail = {}
                   THEN /\ thr' = [thr EXCEPT ![h].pc = "idle"]
                        /\ UNCHANGED <<blocks, live, rest, objs>>
                   ELSE /\ live' = live \cup {s}
                        /\ blocks' = [blocks EXCEPT ![s] = NewBumpBlock]
                        /\ rest' = RestOld(h)
                        /\ HeadAllocThen(h, [blk |-> s, cursor |-> NewBumpBlock.cursor,
                                             limit |-> NewBumpBlock.limit], thr[h])
    /\ UNCHANGED <<nalloc, nodes, heads, hist, concFixed>>

\* AtomicStack::pop, `(*head).next`: a read of freed memory when another
\* pop has freed the node since the load
PopReadNext(h) ==
    /\ thr[h].pc = "pop_next"
    /\ \E nx \in (IF nodes[thr[h].hd].freed THEN AnyPointer
                  ELSE {nodes[thr[h].hd].next}) :
          thr' = [thr EXCEPT ![h].nx = nx, ![h].pc = "pop_cas",
                             ![h].nxok = ~nodes[thr[h].hd].freed]
    /\ UNCHANGED <<blocks, live, rest, block_count, objs, nalloc, nodes, heads, hist,
                   concFixed>>

\* AtomicStack::pop, compare_exchange(head, next) and, on success,
\* Box::from_raw(head); get_new_head installs the value and alloc goes on
PopCompareExchange(h) ==
    /\ thr[h].pc = "pop_cas"
    /\ IF heads = thr[h].hd
       THEN \E v \in (IF nodes[thr[h].hd].freed THEN AnyValue
                      ELSE {nodes[thr[h].hd].value}) :
               /\ heads' = thr[h].nx
               /\ nodes' = [nodes EXCEPT ![thr[h].hd].freed = TRUE]
               /\ hist' = IF v.blk = NoBlk THEN hist
                          ELSE [hist EXCEPT ![v.blk] = @ - 1]
               /\ rest' = RestOld(h)
               /\ HeadAllocThen(h, v, [thr[h] EXCEPT !.hd = Null, !.nx = Null,
                                                     !.nxok = TRUE])
       ELSE /\ thr' = [thr EXCEPT ![h].pc = "pop_load", ![h].hd = Null,
                                  ![h].nx = Null, ![h].nxok = TRUE]
            /\ UNCHANGED <<nodes, heads, hist, rest, objs>>
    /\ UNCHANGED <<blocks, live, block_count, nalloc, concFixed>>

\* drop of handle h: flush hands the head to BlockStore::recycle, which
\* pushes it on the recycle stack (Box::new of the node) or on rest
FlushStep(h) ==
    /\ thr[h].pc = "idle"
    /\ thr[h].win # NoWin
    /\ IF thr[h].win.cursor - thr[h].win.limit >= RECYCLE_HOLE_MIN
       THEN \E n \in { a \in NodeAddrs : nodes[a].freed } :
               /\ nodes' = [nodes EXCEPT ![n] = [value |-> thr[h].win, next |-> Null,
                                                 freed |-> FALSE]]
               /\ thr' = [thr EXCEPT ![h].win = NoWin, ![h].nn = n,
                                     ![h].pc = "push_load"]
               /\ rest' = rest
       ELSE /\ rest' = Push(rest, thr[h].win)
            /\ thr' = [thr EXCEPT ![h].win = NoWin]
            /\ nodes' = nodes
    /\ UNCHANGED <<blocks, live, block_count, objs, nalloc, heads, hist, concFixed>>

\* AtomicStack::push, `self.head.load(Acquire)` and `(*new_node).next = head`
PushLoadHead(h) ==
    /\ thr[h].pc = "push_load"
    /\ thr' = [thr EXCEPT ![h].hd = heads, ![h].pc = "push_cas"]
    /\ nodes' = [nodes EXCEPT ![thr[h].nn].next = heads]
    /\ UNCHANGED <<blocks, live, rest, block_count, objs, nalloc, heads, hist, concFixed>>

\* AtomicStack::push, compare_exchange(head, new_node)
PushCompareExchange(h) ==
    /\ thr[h].pc = "push_cas"
    /\ IF heads = thr[h].hd
       THEN /\ heads' = thr[h].nn
            /\ hist' = [hist EXCEPT ![nodes[thr[h].nn].value.blk] = @ + 1]
            /\ thr' = [thr EXCEPT ![h].pc = "idle", ![h].hd = Null, ![h].nn = Null]
       ELSE /\ thr' = [thr EXCEPT ![h].pc = "push_load", ![h].hd = Null]
            /\ UNCHANGED <<heads, hist>>
    /\ UNCHANGED <<blocks, live, rest, block_count, objs, nalloc, nodes, concFixed>>

ConcNext ==
    \/ \E h \in Handles : AllocStep(h)
    \/ \E h \in Handles : PopLoadHead(h)
    \/ \E h \in Handles : PopReadNext(h)
    \/ \E h \in Handles : PopCompareExchange(h)
    \/ \E h \in Handles : FlushStep(h)
    \/ \E h \in Handles : PushLoadHead(h)
    \/ \E h \in Handles : PushCompareExchange(h)

ConcSpec == ConcInit /\ [][ConcNext]_vars

(* ------------------------------------------------------------------ *)
(* Size model (SizeSpec): Heap::size() and create_large on several     *)
(* threads.  BlockStore.large is the AtomicStack of atomic_stack.rs,   *)
(* one shared-memory access per step; nodes come from and return to    *)
(* the system allocator, which may hand a freed address out again      *)
(* ------------------------------------------------------------------ *)
MaxSizeThreads == 2
MaxLargeNodes == 2
MaxSizeCalls == 4
\* capacity of the Vec drain_to_vec fills (the allocation of a longer one fails)
MaxDrain == MaxLarge + 1

SizeThreads == 1 .. MaxSizeThreads
LargeNodeAddrs == 1 .. MaxLargeNodes
SizeLayout == <<LARGE_OBJECT_MIN, 1>>

\* Option::None where a LargeBlock is expected
NoLarge == [id |-> 0, size |-> 0, mark |-> FREE_MARK]
FreeLargeNode == [value |-> NoLarge, next |-> Null, freed |-> TRUE]
\* items: the Vec drain_to_vec fills, then the iterator push_from_iter
\* consumes; total: the sum count_large_space returned last
IdleSizeThread == [pc |-> "idle", hd |-> Null, nx |-> Null, nn |-> Null,
                   items |-> <<>>, total |-> 0]

\* what a read of freed node memory can yield
AnyLargePointer == LargeNodeAddrs \cup {Null}
AnyLargeValue ==
    LET written == { nodes[n].value : n \in LargeNodeAddrs } \ {NoLarge}
    IN  IF written = {} THEN {NoLarge} ELSE written

SizeInit ==
    /\ HeapInit
    /\ nodes = [n \in LargeNodeAddrs |-> FreeLargeNode]
    /\ heads = Null
    /\ thr = [t \in SizeThreads |-> IdleSizeThread]
    /\ hist = <<>>

sizeFixed == <<blocks, live, free, recycle, rest, large, block_count, head, overflow,
               objs, marker, ret, phase, nsweep, hist>>

\* BlockStore::create_large up to its push: LargeBlock::new(layout)
CreateLarge(t) ==
    /\ thr[t].pc = "idle"
    /\ nalloc < MaxSizeCalls
    /\ nalloc' = nalloc + 1
    /\ IF lused >= MaxLarge
       THEN UNCHANGED <<lused, thr>>
       ELSE LET n == lused + 1
                lb == [id |-> n, size |-> PaddedSize(SizeLayout[1], SizeLayout[2]),
                       mark |-> FREE_MARK]
            IN  /\ lused' = n
                /\ thr' = [thr EXCEPT ![t].items = <<lb>>, ![t].pc = "push_new"]
    /\ UNCHANGED <<nodes, heads, sizeFixed>>

\* Heap::size -> get_size -> count_large_space: drain_to_vec starts on an
\* empty Vec
SizeCall(t) ==
    /\ thr[t].pc = "idle"
    /\ nalloc < MaxSizeCalls
    /\ nalloc' = nalloc + 1
    /\ thr' = [thr EXCEPT ![t].items = <<>>, ![t].total = 0, ![t].pc = "pop_load"]
    /\ UNCHANGED <<lused, nodes, heads, sizeFixed>>

\* AtomicStack::pop, `self.head.load(Acquire)`.  On null pop returns None:
\* drain_to_vec returns, the sizes are summed, push_from_iter starts
LargePopLoadHead(t) ==
    /\ thr[t].pc = "pop_load"
    /\ IF heads # Null
       THEN thr' = [thr EXCEPT ![t].hd = heads, ![t].pc = "pop_next"]
       ELSE thr' = [thr EXCEPT ![t].total = block_count * BLOCK_SIZE
                                            + count_large_space(thr[t].items),
                               ![t].pc = IF thr[t].items = <<>> THEN "idle"
                                         ELSE "push_new"]
    /\ UNCHANGED <<lused, nalloc, nodes, heads, sizeFixed>>

\* AtomicStack::pop, `(*head).next`: a read of freed memory when another
\* pop has freed the node since the load
LargePopReadNext(t) ==
    /\ thr[t].pc = "pop_next"
    /\ \E nx \in (IF nodes[thr[t].hd].freed THEN AnyLargePointer
                  ELSE {nodes[thr[t].hd].next}) :
          thr' = [thr EXCEPT ![t].nx = nx, ![t].pc = "pop_cas"]
    /\ UNCHANGED <<lused, nalloc, nodes, heads, sizeFixed>>

\* AtomicStack::pop, compare_exchange(head, next) and, on success,
\* Box::from_raw(head); drain_to_vec pushes the value on its Vec
LargePopCompareExchange(t) ==
    /\ thr[t].pc = "pop_cas"
    /\ heads = thr[t].hd => Len(thr[t].items) < MaxDrain
    /\ IF heads = thr[t].hd
       THEN \E v \in (IF nodes[thr[t].hd].freed THEN AnyLargeValue
                      ELSE {nodes[thr[t].hd].value}) :
               /\ heads' = thr[t].nx
               /\ nodes' = [nodes EXCEPT ![thr[t].hd].freed = TRUE]
               /\ thr' = [thr EXCEPT ![t].items = Append(@, v), ![t].hd = Null,
                                     ![t].nx = Null, ![t].pc = "pop_load"]
       ELSE /\ thr' = [thr EXCEPT ![t].hd = Null, ![t].nx = Null,
                                  ![t].pc = "pop_load"]
            /\ UNCHANGED <<nodes, heads>>
    /\ UNCHANGED <<lused, nalloc, sizeFixed>>

\* AtomicStack::push of the next item, `Box::into_raw(Box::new(Node {..}))`
LargePushNew(t) ==
    /\ thr[t].pc = "push_new"
    /\ \E n \in { a \in LargeNodeAddrs : nodes[a].freed } :
          /\ nodes' = [nodes EXCEPT ![n] = [value |-> Head(thr[t].items),
                                            next |-> Null, freed |-> FALSE]]
          /\ thr' = [thr EXCEPT ![t].items = Tail(@), ![t].nn = n,
                                ![t].pc = "push_load"]
    /\ UNCHANGED <<lused, nalloc, heads, sizeFixed>>

\* AtomicStack::push, `self.head.load(Acquire)` and `(*new_node).next = head`
LargePushLoadHead(t) ==
    /\ thr[t].pc = "push_load"
    /\ thr' = [thr EXCEPT ![t].hd = heads, ![t].pc = "push_cas"]
    /\ nodes' = [nodes EXCEPT ![thr[t].nn].next = heads]
    /\ UNCHANGED <<lused, nalloc, heads, sizeFixed>>

\* AtomicStack::push, compare_exchange(head, new_node); push_from_iter goes
\* on to its next item, create_large and count_large_space return
LargePushCompareExchange(t) ==
    /\ thr[t].pc = "push_cas"
    /\ IF heads = thr[t].hd
       THEN /\ heads' = thr[t].nn
            /\ thr' = [thr EXCEPT ![t].hd = Null, ![t].nn = Null,
                                  ![t].pc = IF thr[t].items = <<>> THEN "idle"
                                            ELSE "push_new"]
       ELSE /\ thr' = [thr EXCEPT ![t].hd = Null, ![t].pc = "push_load"]
            /\ UNCHANGED heads
    /\ UNCHANGED <<lused, nalloc, nodes, sizeFixed>>

SizeNext ==
    \/ \E t \in SizeThreads : CreateLarge(t)
    \/ \E t \in SizeThreads : SizeCall(t)
    \/ \E t \in SizeThreads : LargePopLoadHead(t)
    \/ \E t \in SizeThreads : LargePopReadNext(t)
    \/ \E t \in SizeThreads : LargePopCompareExchange(t)
    \/ \E t \in SizeThreads : LargePushNew(t)
    \/ \E t \in SizeThreads : LargePushLoadHead(t)
    \/ \E t \in SizeThreads : LargePushCompareExchange(t)

SizeSpec == SizeInit /\ [][SizeNext]_vars

(* ------------------------------------------------------------------ *)
(* Properties of the heap model (Spec)                                *)
(* ------------------------------------------------------------------ *)
AllocReturned == ret.op = "alloc" /\ ret.res = "some"
SweepReturned == ret.op = "sweep"
Pooled == Range(recycle) \cup Range(rest)

\* C1: live objects survive collection.  An object that was marked with
\* the sweep's value before every sweep since its allocation (old = TRUE,
\* still in objs) is never overlapped by the byte range a later successful
\* alloc returns, whatever its size class and whichever handle allocates.
LiveObjectsSurvive ==
    AllocReturned =>
        \A o \in objs : o.old => Disjoint(ret.addr, ret.size, o.addr, o.size)

\* a successful alloc lands in a block that holds a survivor of a sweep
SurvivorSharesBlock ==
    /\ AllocReturned
    /\ ret.kind # "Large"
    /\ \E o \in objs : o.old /\ o.kind # "Large" /\ o.blk = ret.blk

\* C5: alignment.  Every successful alloc returns an address that is a
\* multiple of the layout's alignment, in every size class.
AllocAligned == AllocReturned => ret.addr % ret.align = 0

\* an aligned medium alloc whose start had to be moved down
AlignedBelowCursor ==
    /\ AllocReturned
    /\ ret.kind = "Medium"
    /\ ret.align > 1
    /\ ret.off + ret.size < BLOCK_CAPACITY
    /\ \A o \in objs : o.kind = "Large" \/ o.blk # ret.blk \/ o.off <= ret.off

\* C6: containment.  Every successful Small or Medium alloc lies inside the
\* data region of its block (0 <= o and o + size <= BLOCK_CAPACITY), and
\* the bounds assertion of Block::get_data_ptr never fails.
AllocContained ==
    /\ ret.res # "panic"
    /\ (AllocReturned /\ ret.kind # "Large") =>
           (0 <= ret.off /\ ret.off + ret.size <= BLOCK_CAPACITY)

\* an alloc that ends at the last byte of the data region, in a block that
\* already holds one that starts at its first byte
ContainedAtBothEnds ==
    /\ AllocReturned
    /\ ret.kind # "Large"
    /\ ret.off + ret.size = BLOCK_CAPACITY
    /\ \E o \in objs : o.kind # "Large" /\ o.off = 0

\* C7: size accounting.  Heap::size() is the number of BumpBlocks in
\* existence times BLOCK_SIZE plus the padded sizes of the LargeBlocks in
\* the large pool, in every state between two calls.
SizeAccounting ==
    get_size(Pack) = Cardinality(live) * BLOCK_SIZE + count_large_space(large)

\* C8: after every sweep the free pool holds at most MAX_FREE_BLOCKS blocks.
FreePoolBounded == SweepReturned => Len(free) <= MAX_FREE_BLOCKS

\* C9: after every sweep every block in the recycle pool has a hole of at
\* least RECYCLE_HOLE_MIN bytes.
RecycleHolesRoomy ==
    SweepReturned =>
        \A s \in Range(recycle) : current_hole_size(blocks[s]) >= RECYCLE_HOLE_MIN

\* C10: after sweep(m) every block in the recycle pool and in the rest pool
\* carries the block mark m (so none is FREE): a block of those pools that
\* was not marked m went to the free pool or was dropped, so an existing
\* block without the mark m is in the free pool or in an allocator's window.
NoFreeMarkedInPools ==
    SweepReturned =>
        /\ \A s \in Pooled : blocks[s].mark = ret.val /\ blocks[s].mark # FREE_MARK
        /\ \A s \in live :
              blocks[s].mark # ret.val =>
                  \/ s \in Range(free)
                  \/ \E a \in Allocs : head[a] = s \/ overflow[a] = s

\* a sweep that kept a marked block in a pool and moved an unmarked one out
SweepSortedBlocks ==
    /\ SweepReturned
    /\ Pooled # {}
    /\ free # <<>>

\* the blocks held in the windows of the allocator handles
Windowed == { head[a] : a \in Allocs } \cup { overflow[a] : a \in Allocs }

\* C11: after every sweep block_count equals the number of BumpBlocks that
\* still exist (the blocks of the pools and of the allocator windows).
BlockCountAfterSweep ==
    SweepReturned =>
        /\ block_count = Cardinality(live)
        /\ live = Range(free) \cup Pooled \cup (Windowed \ {NoBlk})

\* the step is a call of Heap::sweep
SweepStep == nsweep' = nsweep + 1

\* the step is a call of Allocator::alloc
AllocCall == nalloc' = nalloc + 1

\* the step leaves every pool, window, block and counter as it was
HeapUntouched ==
    /\ blocks' = blocks /\ live' = live /\ block_count' = block_count
    /\ free' = free /\ recycle' = recycle /\ rest' = rest /\ large' = large
    /\ head' = head /\ overflow' = overflow

\* the lines that hold a byte of object o
ObjLines(o) == (o.off \div LINE_SIZE) .. ((o.off + o.size - 1) \div LINE_SIZE)

\* the hole [limit, cursor), or a hole that the search of inner_alloc finds
\* below it, spans all the lines of L
RECURSIVE HoleOver(_, _, _, _)
HoleOver(lines, cursor, limit, L) ==
    LET h == find_next_available_hole(lines, limit, SMALL_OBJECT_MIN)
    IN  IF \A i \in L : limit <= i * LINE_SIZE /\ (i + 1) * LINE_SIZE <= cursor
        THEN TRUE
        ELSE IF h.found THEN HoleOver(lines, h.cursor, h.limit, L)
        ELSE FALSE

\* C12: sweep reclaims unmarked objects.  For a Small or Medium object that
\* was not marked with m since the previous sweep, after sweep(m) every line
\* that covers it has the FREE mark, and its block is in the free pool (or
\* was dropped) or has a hole that can reuse those lines.
SweepReclaimsUnmarked ==
    [][SweepStep =>
          \A o \in objs :
              (o.kind # "Large" /\ o.mk # marker) =>
                  \/ o.blk \notin live'
                  \/ /\ \A i \in ObjLines(o) : blocks'[o.blk].lines[i] = FREE_MARK
                     /\ \/ \E k \in 1 .. Len(free') : free'[k] = o.blk
                        \/ HoleOver(blocks'[o.blk].lines, blocks'[o.blk].cursor,
                                    blocks'[o.blk].limit, ObjLines(o))]_vars

\* C13: sweep is idempotent.  When sweep(m) is called again with the same m
\* and no alloc, mark or drop in between, the second call changes nothing
\* observable: the membership of free, recycle, rest and large, every
\* block's cursor, limit and mark bytes, block_count and Heap::size().
SweepIdempotent ==
    [][(SweepStep /\ ret.op = "sweep" /\ ret.val = marker) =>
          /\ Range(free') = Range(free) /\ Len(free') = Len(free)
          /\ Range(recycle') = Range(recycle) /\ Len(recycle') = Len(recycle)
          /\ Range(rest') = Range(rest) /\ Len(rest') = Len(rest)
          /\ Range(large') = Range(large) /\ Len(large') = Len(large)
          /\ blocks' = blocks
          /\ live' = live
          /\ block_count' = block_count
          /\ get_size(Pack)' = get_size(Pack)]_vars

\* a second sweep with the same value, over a heap that holds a marked block
\* in a pool and a block in the free pool
SweptTwice ==
    /\ SweepReturned
    /\ ret.again
    /\ Pooled # {}
    /\ free # <<>>

\* the first sweep of a heap that served Small and Medium allocs only, none
\* of which was marked; a handle's windows hold at most two blocks, which is
\* below MAX_FREE_BLOCKS in the source geometry
UnmarkedHeapSwept ==
    /\ SweepReturned
    /\ nsweep = 1
    /\ objs = {}
    /\ lused = 0
    /\ Cardinality(Windowed \ {NoBlk}) <= MAX_FREE_BLOCKS

\* C14: post-sweep size bound.  After any number of Small / Medium allocs
\* followed by sweep(m) with no marks, Heap::size() is at most
\* MAX_FREE_BLOCKS * BLOCK_SIZE, whether or not the handle was dropped
\* before the sweep.
PostSweepSizeBound ==
    UnmarkedHeapSwept => get_size(Pack) <= MAX_FREE_BLOCKS * BLOCK_SIZE

\* C18: a failed alloc leaves the allocator state unchanged: head and
\* overflow hold the same blocks with the same cursor and limit, and no block
\* moved between the pools.
FailedAllocKeepsState ==
    [][(AllocCall /\ ret'.res # "some") =>
          /\ head' = head
          /\ overflow' = overflow
          /\ \A s \in Windowed \ {NoBlk} :
                /\ blocks'[s].cursor = blocks[s].cursor
                /\ blocks'[s].limit = blocks[s].limit
          /\ free' = free /\ recycle' = recycle /\ rest' = rest]_vars

\* C19: block_count goes up only when a new block is actually allocated and
\* down only when sweep drops a block, so every step changes it by the
\* change in the number of existing blocks; an alloc whose new_block() fails
\* with OOM leaves block_count and Heap::size() as they were.
BlockCountFollowsBlocks ==
    [][/\ block_count' - block_count = Cardinality(live') - Cardinality(live)
       /\ (AllocCall /\ ret'.res = "OOM") =>
             (live' = live => /\ block_count' = block_count
                              /\ get_size(Pack)' = get_size(Pack))]_vars

LargeSweptAndReleased ==
    [][SweepStep =>
          /\ Range(large') = { lb \in Range(large) : lb.mark = marker }
          /\ get_size(Pack)' = block_count' * BLOCK_SIZE
                               + SeqSum([i \in 1 .. Len(large') |-> large'[i].size])
          /\ lused' = Len(large')]_vars

\* the heap has only served Medium requests of more than half a block, every
\* one of them with success, and no sweep has run
OnlyHalfBlockMediums ==
    /\ nsweep = 0
    /\ Cardinality(objs) = nalloc
    /\ \A o \in objs : o.kind = "Medium" /\ 2 * o.size > BLOCK_CAPACITY

\* C23: on a new heap, after j consecutive Medium allocations that are each
\* larger than half the block capacity there are exactly j BumpBlocks and
\* Heap::size() is j * BLOCK_SIZE.
BlockPerHalfBlockMedium ==
    OnlyHalfBlockMediums =>
        /\ Cardinality(live) = nalloc
        /\ get_size(Pack) = nalloc * BLOCK_SIZE

\* one allocator has made two such allocations: the first block was displaced
TwoHalfBlockMediums ==
    /\ OnlyHalfBlockMediums
    /\ nalloc = 2
    /\ overflow[1] # NoBlk
    /\ head[1] = NoBlk
    /\ \A a \in Allocs \ {1} : head[a] = NoBlk /\ overflow[a] = NoBlk
    /\ Len(rest) + Len(recycle) = 1

\* the call took block b from the top of exactly one pool and touched
\* nothing else; created tells whether the block is a new one instead
Supplied(g, b, created) ==
    /\ g.res = "ok"
    /\ g.blk = b
    /\ g.H.rest = rest
    /\ g.H.head = head /\ g.H.overflow = overflow /\ g.H.large = large
    /\ IF created
       THEN /\ b \notin live
            /\ g.H.live = live \cup {b}
            /\ g.H.blocks[b] = NewBumpBlock
            /\ g.H.free = free /\ g.H.recycle = recycle
       ELSE /\ g.H.live = live /\ g.H.blocks = blocks
            /\ g.H.block_count = block_count

\* C24: get_head() pops the recycle pool whenever it is non-empty and
\* otherwise behaves as get_overflow(); get_overflow() pops the free pool
\* whenever it is non-empty and creates a new block only when the free pool
\* is empty; neither returns a block of the rest pool.
BlockSupplyOrder ==
    LET gh == get_head(Pack)
        go == get_overflow(Pack)
    IN  /\ recycle # <<>> =>
              /\ Supplied(gh, Head(recycle), FALSE)
              /\ gh.H.recycle = Tail(recycle) /\ gh.H.free = free
        /\ recycle = <<>> => gh = go
        /\ free # <<>> =>
              /\ Supplied(go, Head(free), FALSE)
              /\ go.H.free = Tail(free) /\ go.H.recycle = recycle
        /\ free = <<>> =>
              /\ go.res = "ok" => Supplied(go, go.blk, TRUE)
              /\ go.res # "ok" => go.H.live = live /\ go.H.free = free
                                  /\ go.H.recycle = recycle /\ go.H.rest = rest
        /\ \A g \in {gh, go} : g.res = "ok" => g.blk \notin Range(rest)

\* both pools hold a block, so the two calls have to choose differently,
\* and a rest block is there to be left alone
BothSuppliesWaiting ==
    /\ recycle # <<>>
    /\ free # <<>>
    /\ get_head(Pack).blk = Head(recycle)
    /\ get_overflow(Pack).blk = Head(free)

\* C25: get_new_head() makes the allocator's own overflow block the new head
\* when it has one (the overflow window is then empty) and asks
\* store.get_head() only otherwise; the displaced head is pushed to the rest
\* pool and to no other pool, whatever its hole size.
SmallRefillProtocol ==
    \A a \in Allocs :
        LET g == get_new_head(Pack, a)
            s == get_head(Pack)
        IN  /\ overflow[a] # NoBlk =>
                  /\ g.res = "ok"
                  /\ g.H.head[a] = overflow[a]
                  /\ g.H.overflow[a] = NoBlk
                  /\ g.H.free = free /\ g.H.recycle = recycle
                  /\ g.H.live = live /\ g.H.block_count = block_count
            /\ overflow[a] = NoBlk =>
                  /\ g.res = s.res
                  /\ s.res = "ok" =>
                        /\ g.H.head[a] = s.blk
                        /\ g.H.overflow[a] = NoBlk
                        /\ g.H.free = s.H.free /\ g.H.recycle = s.H.recycle
                        /\ g.H.live = s.H.live
                  /\ s.res # "ok" => g.H = s.H
            /\ g.res = "ok" =>
                  /\ g.H.rest = IF head[a] # NoBlk THEN <<head[a]>> \o rest ELSE rest
                  /\ head[a] # NoBlk =>
                        head[a] \notin Range(g.H.recycle) \cup Range(g.H.free)
                  /\ \A b \in Allocs \ {a} :
                        g.H.head[b] = head[b] /\ g.H.overflow[b] = overflow[b]

\* an allocator holds both windows and its head still has a hole that
\* recycle() would accept
RoomyHeadDisplaced ==
    \E a \in Allocs :
        /\ head[a] # NoBlk
        /\ overflow[a] # NoBlk
        /\ current_hole_size(blocks[head[a]]) >= RECYCLE_HOLE_MIN
        /\ get_new_head(Pack, a).H.rest = <<head[a]>> \o rest

\* the hole of block blk is the whole block
EmptyHole(blk) == blk.cursor = BLOCK_CAPACITY /\ blk.limit = 0

\* get_new_overflow() applied to the current state, for each allocator
OverflowRefill ==
    \A a \in Allocs :
        LET g == get_new_overflow(Pack, a)
            s == get_overflow(Pack)
            old == overflow[a]
        IN  /\ g.res = s.res
            /\ s.res # "ok" => g.H = s.H
            /\ s.res = "ok" =>
                  /\ g.H.overflow[a] = s.blk
                  /\ s.blk \notin Range(recycle) \cup Range(rest)
                  /\ (free # <<>> /\ s.blk = Head(free)) \/ s.blk \notin live
                  /\ EmptyHole(g.H.blocks[s.blk])
                  /\ g.H.head = head
                  /\ \A b \in Allocs \ {a} : g.H.overflow[b] = overflow[b]
                  /\ old = NoBlk => g.H.recycle = recycle /\ g.H.rest = rest
                  /\ old # NoBlk =>
                        IF current_hole_size(blocks[old]) >= RECYCLE_HOLE_MIN
                        THEN g.H.recycle = <<old>> \o recycle /\ g.H.rest = rest
                        ELSE g.H.rest = <<old>> \o rest /\ g.H.recycle = recycle

\* a Medium alloc returns memory of an overflow window, leaves every head
\* window alone and takes no block out of the recycle or rest pool
MediumFromOverflow ==
    (AllocCall /\ ret'.kind = "Medium" /\ ret'.res = "some") =>
        /\ \E a \in Allocs : overflow'[a] = ret'.blk
        /\ head' = head
        /\ ret'.blk \notin Range(recycle) \cup Range(rest)
        /\ Range(recycle) \subseteq Range(recycle')
        /\ Range(rest) \subseteq Range(rest')

\* C26: Medium allocations are served only from the overflow window; a block
\* that becomes an overflow window comes from get_overflow() (new, or popped
\* from free) with an entirely empty hole (cursor = BLOCK_CAPACITY,
\* limit = 0) and is never a recycle or rest block; the displaced overflow
\* block goes through recycle(): to the recycle pool when its hole is at
\* least RECYCLE_HOLE_MIN, to rest otherwise.
MediumRefillProtocol ==
    /\ [](OverflowRefill /\ \A i \in 1 .. Len(free) : EmptyHole(blocks[free[i]]))
    /\ [][MediumFromOverflow]_vars

\* an allocator whose overflow block still has a roomy hole refills from the
\* free pool: the new window is the free block, the old one goes to recycle
OverflowRefilledFromFree ==
    \E a \in Allocs :
        /\ overflow[a] # NoBlk
        /\ free # <<>>
        /\ current_hole_size(blocks[overflow[a]]) >= RECYCLE_HOLE_MIN
        /\ get_new_overflow(Pack, a).H.overflow[a] = Head(free)
        /\ get_new_overflow(Pack, a).H.recycle = <<overflow[a]>> \o recycle

\* the blocks allocator a holds as windows
WindowsOf(a) == {head[a], overflow[a]} \ {NoBlk}

\* store F is the current store after allocator a gave back its windows
Flushed(F, a) ==
    /\ F.head[a] = NoBlk /\ F.overflow[a] = NoBlk
    /\ \A b \in Allocs \ {a} : F.head[b] = head[b] /\ F.overflow[b] = overflow[b]
    /\ \A b \in WindowsOf(a) :
          IF current_hole_size(blocks[b]) >= RECYCLE_HOLE_MIN
          THEN Count(F.recycle, b) = 1 /\ b \notin Range(F.rest)
          ELSE Count(F.rest, b) = 1 /\ b \notin Range(F.recycle)
    /\ Range(F.recycle) \cup Range(F.rest)
          = Range(recycle) \cup Range(rest) \cup WindowsOf(a)
    /\ Len(F.recycle) + Len(F.rest)
          = Len(recycle) + Len(rest) + Cardinality(WindowsOf(a))
    /\ F.block_count = block_count
    /\ F.blocks = blocks /\ F.live = live /\ F.free = free /\ F.large = large

\* a step that is the drop of an allocator: no alloc, mark or sweep, and a
\* window or a pool of blocks changes
DropStep ==
    /\ nalloc' = nalloc /\ nsweep' = nsweep /\ objs' = objs
    /\ <<head, overflow, recycle, rest>>' # <<head, overflow, recycle, rest>>

\* C27: dropping an allocator returns both of its windows: afterwards it
\* holds no block, each former window is in the recycle pool when its hole
\* is at least RECYCLE_HOLE_MIN and in rest otherwise, and block_count is
\* unchanged.
DropReturnsWindows ==
    /\ [](\A a \in Allocs : Flushed(flush(Pack, a), a))
    /\ [][DropStep => \E a \in Allocs : WindowsOf(a) # {} /\ Flushed(Pack', a)]_vars

\* an allocator holds a head with a roomy hole and an overflow block with a
\* cramped one: the drop sends the first to recycle and the second to rest
DropSplitsWindows ==
    \E a \in Allocs :
        /\ head[a] # NoBlk /\ overflow[a] # NoBlk
        /\ current_hole_size(blocks[head[a]]) >= RECYCLE_HOLE_MIN
        /\ current_hole_size(blocks[overflow[a]]) < RECYCLE_HOLE_MIN
        /\ flush(Pack, a).recycle = <<head[a]>> \o recycle
        /\ flush(Pack, a).rest = <<overflow[a]>> \o rest

\* Small layouts with align <= LINE_SIZE
SmallLayouts ==
    { l \in (SMALL_OBJECT_MIN .. SMALL_OBJECT_MAX) \X (1 .. LINE_SIZE) :
        \E k \in 0 .. LINE_SIZE : l[2] = 2 ^ k }

RestInertUntilSweep ==
    [][~SweepStep =>
          /\ \E k \in 0 .. Len(rest') :
                /\ Len(rest') = Len(rest) + k
                /\ SubSeq(rest', k + 1, Len(rest')) = rest
          /\ \A b \in Range(rest) :
                /\ blocks'[b].cursor = blocks[b].cursor
                /\ blocks'[b].limit = blocks[b].limit
                /\ \A a \in Allocs : head'[a] # b /\ overflow'[a] # b
          /\ (AllocCall /\ ret'.res = "some" /\ ret'.kind # "Large") =>
                ret'.blk \notin Range(rest)]_vars

\* an alloc was served from a block created for it while the rest pool
\* holds a block with room for the same request
RoomyRestBlockPassedOver ==
    /\ AllocReturned
    /\ ret.res = "some"
    /\ ret.kind = "Small"
    /\ rest # <<>>
    /\ ret.blk \notin Range(rest)
    /\ blocks[ret.blk].cursor = BLOCK_CAPACITY - ret.size
    /\ \E b \in Range(rest) : current_hole_size(blocks[b]) >= ret.size

\* C38: sweep frame.  sweep(m) changes only blocks that are in the large,
\* recycle and rest pools when it starts: the cursor, limit and mark bytes
\* of the blocks held in an allocator's head or overflow window and of the
\* blocks already in the free pool are unchanged, and those blocks keep
\* their place.
SweepFrame ==
    [][SweepStep =>
          /\ \A b \in Slots :
                blocks'[b] # blocks[b] => b \in Range(recycle) \cup Range(rest)
          /\ \A b \in (Windowed \ {NoBlk}) \cup Range(free) :
                blocks'[b] = blocks[b] /\ b \in live'
          /\ head' = head
          /\ overflow' = overflow
          /\ \E k \in 0 .. Len(free') :
                /\ Len(free') = Len(free) + k
                /\ SubSeq(free', k + 1, Len(free')) = free]_vars

\* a sweep has returned and a window still holds a block that carries the
\* mark of another cycle, which reset_hole would have freed
WindowKeptStaleMark ==
    /\ SweepReturned
    /\ \E b \in Windowed \ {NoBlk} :
          /\ blocks[b].mark \notin {FREE_MARK, ret.val}
          /\ blocks[b].cursor < BLOCK_CAPACITY

(* ------------------------------------------------------------------ *)
(* Properties of the cycle model (CycleSpec)                          *)
(* ------------------------------------------------------------------ *)
\* C36: free-pool invariant.  When every sweep uses a mark value different
\* from the previous one and all allocator windows are flushed before each
\* sweep, every block in the free pool has block mark FREE, all line marks
\* FREE, cursor = BLOCK_CAPACITY and limit = 0, so get_overflow() always
\* hands out an entirely empty block.
FreePoolClean ==
    /\ \A i \in 1 .. Len(free) :
          /\ blocks[free[i]].mark = FREE_MARK
          /\ blocks[free[i]].lines = FreeLines
          /\ blocks[free[i]].cursor = BLOCK_CAPACITY
          /\ blocks[free[i]].limit = 0
    /\ LET g == get_overflow(Pack)
       IN  g.res = "ok" => g.H.blocks[g.blk] = NewBumpBlock

\* after the last cycle the free pool holds a reclaimed block while the
\* runtime still holds an object that survived a sweep
ReclaimedBlockInFreePool ==
    /\ nsweep = MaxCycles
    /\ free # <<>>
    /\ \E o \in objs : o.old

(* ------------------------------------------------------------------ *)
(* Properties of the edge model (EdgeSpec)                            *)
(* ------------------------------------------------------------------ *)
\* C15: alloc with size 0 or size > u32::MAX returns AllocOverflow as an
\* error value, without a panic, and creates no block and changes no pool.
BadSizeIsAllocOverflow ==
    [][(AllocCall /\ (ret'.size = 0 \/ ret'.size > MAX_ALLOC_SIZE)) =>
          (ret'.res = "AllocOverflow" /\ HeapUntouched)]_vars

\* C16: a Small or Medium alloc with align > BLOCK_SIZE fails with
\* AllocOverflow without creating any block.
BigAlignIsAllocOverflow ==
    [][(AllocCall /\ ret'.size >= 1 /\ ret'.size <= BLOCK_CAPACITY
                   /\ ret'.align > BLOCK_SIZE) =>
          (ret'.res = "AllocOverflow" /\ live' = live /\ block_count' = block_count)]_vars

\* C17: every alloc terminates.  For 1 <= size <= BLOCK_CAPACITY and a
\* power-of-two align <= BLOCK_SIZE a freshly created empty block serves the
\* request: a call that creates a block returns a pointer, and no call
\* creates more than one block.
FreshBlockServes ==
    [][(AllocCall /\ ret'.size >= 1 /\ ret'.size <= BLOCK_CAPACITY
                   /\ ret'.align <= BLOCK_SIZE) =>
          /\ Cardinality(live' \ live) <= 1
          /\ live' # live => ret'.res = "some"]_vars

(* ------------------------------------------------------------------ *)
(* Properties of the block model (BlockSpec)                          *)
(* ------------------------------------------------------------------ *)
HoleReturned == ret.op = "find_next_available_hole"
MarkReturned == ret.op = "mark"

\* the lines lo .. hi - 1 lie below line start_line, are all FREE, and lo is
\* not the line directly above a non-FREE line
UsableRun(L, start_line, lo, hi) ==
    /\ lo < hi
    /\ hi <= start_line
    /\ \A i \in lo .. hi - 1 : L[i] = FREE_MARK
    /\ lo = 0 \/ L[lo - 1] = FREE_MARK

\* C21: hole search correctness.  For every assignment of line marks, every
\* starting_at and every alloc_size s >= 1, find_next_available_hole returns
\* Some((c, l)) only with c > l, c - l >= s, every line of [l, c) FREE and
\* the line directly above a non-FREE stop line left out; it returns None
\* exactly when no run of FREE lines below starting_at satisfies that rule
\* for s.
HoleSearchCorrect ==
    HoleReturned =>
        LET L == blocks[1].lines
            start_line == ret.starting_at \div LINE_SIZE
        IN  IF ret.found
            THEN /\ ret.cursor > ret.limit
                 /\ ret.cursor - ret.limit >= ret.alloc_size
                 /\ ret.cursor % LINE_SIZE = 0
                 /\ ret.limit % LINE_SIZE = 0
                 /\ UsableRun(L, start_line, ret.limit \div LINE_SIZE,
                              ret.cursor \div LINE_SIZE)
            ELSE ~ \E lo, hi \in 0 .. start_line :
                     /\ UsableRun(L, start_line, lo, hi)
                     /\ (hi - lo) * LINE_SIZE >= ret.alloc_size

\* a hole that stops above a marked line and starts below another one
HoleBetweenMarkedLines ==
    /\ HoleReturned
    /\ ret.found
    /\ ret.limit > 0
    /\ ret.cursor < (ret.starting_at \div LINE_SIZE) * LINE_SIZE

\* lo .. hi - 1 is a whole run of FREE lines below line start_line: it ends
\* under the starting line or under a non-FREE line and begins at line 0 or
\* above a non-FREE line
FreeRun(L, start_line, lo, hi) ==
    /\ lo < hi
    /\ hi <= start_line
    /\ \A i \in lo .. hi - 1 : L[i] = FREE_MARK
    /\ hi = start_line \/ L[hi] # FREE_MARK
    /\ lo = 0 \/ L[lo - 1] # FREE_MARK

\* the run has enough lines: free_line_count >= lines_required when it
\* reaches line 0, free_line_count > lines_required above a non-FREE line
Qualifies(lo, hi, lines_required) ==
    IF lo = 0 THEN hi - lo >= lines_required ELSE hi - lo > lines_required

\* the result is that of the highest qualifying run: cursor under the
\* nearest non-FREE line above it (or the starting line), limit 0 at line 0
\* and two lines above the stop line lo - 1 otherwise
HoleValues ==
    HoleReturned =>
        LET L == blocks[1].lines
            start_line == ret.starting_at \div LINE_SIZE
            lines_required == div_ceil(ret.alloc_size, LINE_SIZE)
            Runs == { r \in (0 .. start_line) \X (0 .. start_line) :
                        /\ FreeRun(L, start_line, r[1], r[2])
                        /\ Qualifies(r[1], r[2], lines_required) }
        IN  /\ ret.found <=> Runs # {}
            /\ ret.found =>
                  \E r \in Runs :
                      /\ \A q \in Runs : q[2] <= r[2]
                      /\ ret.cursor = r[2] * LINE_SIZE
                      /\ ret.limit = IF r[1] = 0 THEN 0
                                     ELSE ((r[1] - 1) + 2) * LINE_SIZE

\* the data lines are marked alternately, beginning with a marked line 0
EvenLinesMarked ==
    \A i \in DataLines : (blocks[1].lines[i] # FREE_MARK) <=> (i % 2 = 0)

\* the data lines are marked alternately, in either of the two patterns
EveryOtherLineMarked ==
    \A i \in DataLines \ {0} :
        (blocks[1].lines[i] = FREE_MARK) # (blocks[1].lines[i - 1] = FREE_MARK)

\* C28: hole search result values.  The search scans downward from line
\* starting_at / LINE_SIZE - 1 and returns the highest qualifying run;
\* cursor is LINE_SIZE times the index of the nearest non-FREE line above
\* the run (or the starting line); limit is (stop_index + 2) * LINE_SIZE for
\* a run ended by a non-FREE line, which needs free_line_count >
\* lines_required, and 0 for a run that reaches line 0, which needs
\* free_line_count >= lines_required; with lines 0, 2, 4, ... marked and the
\* lines between them FREE no hole is found for any size.
HoleSearchValues ==
    /\ HoleValues
    /\ (HoleReturned /\ EvenLinesMarked) => ~ret.found

\* C28 as stated: the same, with "every other line marked" for either of
\* the two alternating patterns
HoleSearchValuesAnyAlternation ==
    /\ HoleValues
    /\ (HoleReturned /\ EveryOtherLineMarked) => ~ret.found

\* lines 0, 2, 4, ... are marked and a one-line hole was looked for from the
\* top of the block
AlternateLinesSearched ==
    /\ HoleReturned
    /\ EvenLinesMarked
    /\ ret.starting_at = BLOCK_CAPACITY
    /\ ret.alloc_size <= LINE_SIZE
    /\ ~ret.found

\* C29: mark of a Medium object at data offset o with size s sets every line
\* from floor(o / LINE_SIZE) through floor((o + s - 1) / LINE_SIZE)
\* inclusive to the mark value, and sets the block mark to it.
MediumMarkCoversObject ==
    (MarkReturned /\ SizeClass(ret.size) = "Medium") =>
        /\ \A i \in (ret.off \div LINE_SIZE) .. ((ret.off + ret.size - 1) \div LINE_SIZE) :
              blocks[1].lines[i] = ret.m
        /\ blocks[1].mark = ret.m

\* C30: mark of a Small object touches exactly two mark bytes of its block:
\* the line mark of the line that holds the object's first byte and the
\* block mark, both set to the mark value; every other line mark of the
\* block and every mark byte of every other block is unchanged.
SmallMarkTouchesTwoBytes ==
    (MarkReturned /\ SizeClass(ret.size) = "Small") =>
        LET line == ret.off \div LINE_SIZE
        IN  /\ blocks[1].lines[line] = ret.m
            /\ blocks[1].mark = ret.m
            /\ \A i \in DOMAIN blocks[1].lines \ {line} :
                  blocks[1].lines[i] = ret.before[1].lines[i]
            /\ \A b \in Slots \ {1} :
                  /\ blocks[b].lines = ret.before[b].lines
                  /\ blocks[b].mark = ret.before[b].mark

\* a Small object was marked with a new mark value in a block that carries
\* marks of the previous cycle on other lines and a FREE line above the
\* object's line
SmallMarkedAmongOldMarks ==
    /\ MarkReturned
    /\ SizeClass(ret.size) = "Small"
    /\ ret.m # Min(Marks)
    /\ ret.before[1].mark = Min(Marks)
    /\ ret.before[1].lines[(ret.off \div LINE_SIZE) + 1] = FREE_MARK
    /\ ret.before[1].lines[ret.off \div LINE_SIZE] = FREE_MARK
    /\ \E i \in DataLines : ret.before[1].lines[i] = Min(Marks)

ResetReturned == ret.op = "reset_hole"
InnerAllocReturned == ret.op = "inner_alloc"

\* C31: after reset_hole(m) every mark byte of the block is FREE or m; when
\* the block mark is not m the window is the whole block (cursor =
\* BLOCK_CAPACITY, limit = 0); otherwise the window is the first hole found
\* from the top of the block for a one-byte request, or cursor = limit = 0
\* when there is none.
ResetHoleWindow ==
    ResetReturned =>
        LET b == blocks[1]
            h == find_next_available_hole(b.lines, BLOCK_CAPACITY, 1)
        IN  /\ b.mark \in {FREE_MARK, ret.m}
            /\ \A i \in DOMAIN b.lines : b.lines[i] \in {FREE_MARK, ret.m}
            /\ b.mark # ret.m => b.cursor = BLOCK_CAPACITY /\ b.limit = 0
            /\ (b.mark = ret.m /\ h.found) => b.cursor = h.cursor /\ b.limit = h.limit
            /\ (b.mark = ret.m /\ ~h.found) => b.cursor = 0 /\ b.limit = 0

\* reset_hole(m) on a block marked m whose top lines are marked: the window
\* is a hole below them
ResetToLowerHole ==
    /\ ResetReturned
    /\ blocks[1].mark = ret.m
    /\ blocks[1].lines[Max(DataLines)] = ret.m
    /\ 0 < blocks[1].limit
    /\ blocks[1].cursor < BLOCK_CAPACITY

\* C32: window invariant.  In every reachable state of every BumpBlock,
\* after any sequence of inner_alloc (successful or failed) and reset_hole
\* calls, 0 <= limit <= cursor <= BLOCK_CAPACITY, so current_hole_size() =
\* cursor - limit does not underflow.
WindowInvariant ==
    \A b \in Slots :
        /\ 0 <= blocks[b].limit
        /\ blocks[b].limit <= blocks[b].cursor
        /\ blocks[b].cursor <= BLOCK_CAPACITY
        /\ current_hole_size(blocks[b]) >= 0

\* a failed inner_alloc has left the window on a hole further down the block
FailedAllocMovedWindow ==
    /\ InnerAllocReturned
    /\ ret.res = "none"
    /\ 0 < blocks[1].limit
    /\ blocks[1].limit < blocks[1].cursor
    /\ blocks[1].cursor < BLOCK_CAPACITY

\* C34: on a block whose line marks are all FREE,
\* find_next_available_hole(BLOCK_CAPACITY, s) returns (BLOCK_CAPACITY, 0)
\* for every 1 <= s <= BLOCK_CAPACITY: the window of a newly constructed
\* BumpBlock.
EntireBlockIsHole ==
    (/\ HoleReturned
     /\ \A i \in DOMAIN blocks[1].lines : blocks[1].lines[i] = FREE_MARK
     /\ ret.starting_at = BLOCK_CAPACITY) =>
        /\ ret.found
        /\ ret.cursor = BLOCK_CAPACITY /\ ret.limit = 0
        /\ ret.cursor = NewBumpBlock.cursor /\ ret.limit = NewBumpBlock.limit

\* the search for a hole of the whole capacity on an unmarked block
WholeCapacitySearched ==
    /\ HoleReturned
    /\ blocks[1].lines = FreeLines
    /\ ret.starting_at = BLOCK_CAPACITY
    /\ ret.alloc_size = BLOCK_CAPACITY
    /\ ret.found

(* ------------------------------------------------------------------ *)
(* Properties of the bump model (BumpSpec)                            *)
(* ------------------------------------------------------------------ *)
\* every call so far asked for one byte with align 1 and returned a pointer
OnlyBytesServed ==
    \A o \in objs : o.size = 1 /\ o.align = 1 /\ o.res = "some"

\* C33: exact bump accounting on a fresh block.  An inner_alloc with align 1
\* and size s that fits lowers the cursor by exactly s and returns the
\* offset equal to the new cursor; so the block serves exactly
\* BLOCK_CAPACITY one-byte allocations, current_hole_size() is
\* BLOCK_CAPACITY - i after i of them, and the next one returns None.
ExactBumpAccounting ==
    /\ [](OnlyBytesServed =>
             /\ nalloc <= BLOCK_CAPACITY
             /\ blocks[1].cursor = BLOCK_CAPACITY - nalloc
             /\ current_hole_size(blocks[1]) = BLOCK_CAPACITY - nalloc
             /\ nalloc > 0 => ret.hole = BLOCK_CAPACITY - (nalloc - 1))
    /\ [][(AllocCall /\ ret'.align = 1
                     /\ ret'.size <= current_hole_size(blocks[1])) =>
              /\ ret'.res = "some"
              /\ blocks'[1].cursor = blocks[1].cursor - ret'.size
              /\ ret'.off = blocks'[1].cursor]_vars
    /\ [][(AllocCall /\ OnlyBytesServed /\ nalloc = BLOCK_CAPACITY
                     /\ ret'.size = 1 /\ ret'.align = 1) =>
              /\ ret'.res = "none"
              /\ blocks' = blocks]_vars

\* the block has served BLOCK_CAPACITY one-byte allocations
BlockExhaustedByBytes ==
    /\ OnlyBytesServed
    /\ nalloc = BLOCK_CAPACITY
    /\ blocks[1].cursor = 0

(* ------------------------------------------------------------------ *)
(* Properties of the concurrent model (ConcSpec)                      *)
(* ------------------------------------------------------------------ *)
Quiescent == \A h \in Handles : thr[h].pc = "idle"
Pushing(h) == thr[h].pc \in {"push_load", "push_cas"}

\* the places that hold block s: an allocator's head, a node being pushed,
\* the nodes of the recycle stack, the rest pool
Holders(s) ==
    Cardinality({ h \in Handles : thr[h].win.blk = s })
    + Cardinality({ h \in Handles : Pushing(h) /\ nodes[thr[h].nn].value.blk = s })
    + Count(StackBlocks(heads, MaxNodes + 1), s)
    + Count([i \in 1 .. Len(rest) |-> rest[i].blk], s)

\* C2: distinctness.  With no sweep in between, two successful alloc calls,
\* by the same handle or by handles on different threads, never return
\* overlapping byte ranges.
AllocsDistinct ==
    \A o1, o2 \in objs :
        o1.id # o2.id => Disjoint(o1.addr, o1.size, o2.addr, o2.size)

\* C3: ownership exclusivity.  Under every interleaving of alloc and drop
\* by several handles each existing block is in exactly one place.
OwnershipExclusive == \A s \in live : Holders(s) = 1

\* C4: the recycle stack is linearizable.  No pop reads a node that was
\* freed; no block is returned by more pops than pushes put it there; and
\* when no call is in progress the stack holds exactly the blocks pushed and
\* not yet popped.  (pop returns None on a null head only, which is the
\* empty stack at the load.)
StackLinearizable ==
    /\ \A h \in Handles : thr[h].nxok
    /\ \A s \in Slots : hist[s] >= 0
    /\ Quiescent =>
          \A s \in Slots : hist[s] = Count(StackBlocks(heads, MaxNodes + 1), s)

(* ------------------------------------------------------------------ *)
(* Properties of the size model (SizeSpec)                            *)
(* ------------------------------------------------------------------ *)
\* the node addresses linked from p
RECURSIVE LargeChain(_, _)
LargeChain(p, fuel) ==
    IF p = Null \/ fuel = 0 THEN <<>>
    ELSE <<p>> \o LargeChain(nodes[p].next, fuel - 1)

SizeQuiescent == \A t \in SizeThreads : thr[t].pc = "idle"

\* the large pool holds exactly the LargeBlocks created so far, each once
LargePoolExact ==
    LET chain == LargeChain(heads, MaxLargeNodes + 1)
    IN  /\ Len(chain) = lused
        /\ \A i \in 1 .. Len(chain) : ~nodes[chain[i]].freed
        /\ { nodes[chain[i]].value.id : i \in 1 .. Len(chain) } = 1 .. lused

\* C39: Heap::size() does not lose large blocks: for any interleaving of
\* size() calls with concurrent create_large calls and other size() calls,
\* once all calls have returned the large pool holds exactly the
\* LargeBlocks created so far, each once.
SizeKeepsLargeBlocks == SizeQuiescent => LargePoolExact


====
